---- MODULE Spec2Model ----
(***************************************************************************)
(* nxapi: the Nintendo Switch Online token cache (getToken in util.ts).     *)
(*                                                                         *)
(* getToken is an async function: it runs synchronously up to each await   *)
(* and is resumed when the awaited storage operation or token exchange     *)
(* completes.  Every action below is one such run-to-the-next-await        *)
(* segment of one call; the awaited storage operation takes effect in the  *)
(* step that resumes the call.  Several calls (Calls) run interleaved on   *)
(* one storage, as the HTTP server's request handlers do.                  *)
(*                                                                         *)
(* Spec is the token cache under interleaved calls.  SpecProxy runs the    *)
(* same call twice in lockstep, without and with a proxy URL, each on its  *)
(* own storage, fed the same clock and the same exchange answers.          *)
(***************************************************************************)
EXTENDS Integers, Sequences, FiniteSets, TLC

\* ------------------------------------------------------------- bounds
MaxCalls == 3
MaxSeconds == 2
MaxRequests == 3
MaxLoops == 2
MaxInvokes == 2

\* milliseconds per second, the factor between expiresIn / exp and Date.now()
MsPerSecond == 1000

Calls == {1, 2}

\* ---------------------------------------------------- optional values
\* undefined | T, as a sequence of length 0 or 1
Undefined == <<>>
Some(v) == <<v>>
IsDefined(o) == Len(o) = 1
Value(o) == o[1]

\* ------------------------------------------------------ session tokens
ZNCA_CLIENT_ID == "71b963c1b7b6d119"
NintendoAccountIssuer == "https://accounts.nintendo.com"

\* The session tokens callers present, with the payload Jwt.decode gives for
\* each: two tokens of user u1, the second expiring at 1 s, one for each
\* failed check, and the empty string (no token).
SessionTokens ==
    {"tokA", "tokExp", "tokIss", "tokTyp", "tokAud", ""}

Payload(iss, typ, aud, exp, sub) ==
    [iss |-> iss, typ |-> typ, aud |-> aud, exp |-> exp, sub |-> sub]

Jwt_decode(tok) ==
    CASE tok = "tokA"   -> Payload(NintendoAccountIssuer, "session_token", ZNCA_CLIENT_ID, 100, "u1")
      [] tok = "tokExp" -> Payload(NintendoAccountIssuer, "session_token", ZNCA_CLIENT_ID, 1, "u1")
      [] tok = "tokIss" -> Payload("https://accounts.example.com", "session_token", ZNCA_CLIENT_ID, 100, "u1")
      [] tok = "tokTyp" -> Payload(NintendoAccountIssuer, "code", ZNCA_CLIENT_ID, 100, "u1")
      [] tok = "tokAud" -> Payload(NintendoAccountIssuer, "session_token", "54789befb391a838", 100, "u1")
      [] tok = "tokB"   -> Payload(NintendoAccountIssuer, "session_token", ZNCA_CLIENT_ID, 100, "u2")

\* The error getToken throws before touching storage, "" when the token passes.
\* jwt.payload.exp is in seconds and Date.now() in milliseconds:
\* exp <= Date.now() / 1000  (real division)  iff  exp * 1000 <= Date.now().
\* (variant: the audience check left out)
ValidateNoAudience(tok, t) ==
    IF tok = "" THEN "Invalid token"
    ELSE LET payload == Jwt_decode(tok) IN
         IF payload.iss # NintendoAccountIssuer
           THEN "Invalid Nintendo Account session token issuer"
         ELSE IF payload.typ # "session_token"
           THEN "Invalid Nintendo Account session token type"
         ELSE IF payload.exp * MsPerSecond <= t
           THEN "Nintendo Account session token expired"
         ELSE ""

ValidateSessionToken(tok, t) ==
    IF tok = "" THEN "Invalid token"
    ELSE LET payload == Jwt_decode(tok) IN
         IF payload.iss # NintendoAccountIssuer
           THEN "Invalid Nintendo Account session token issuer"
         ELSE IF payload.typ # "session_token"
           THEN "Invalid Nintendo Account session token type"
         ELSE IF payload.aud # ZNCA_CLIENT_ID
           THEN "Invalid Nintendo Account session token audience"
         ELSE IF payload.exp * MsPerSecond <= t
           THEN "Nintendo Account session token expired"
         ELSE ""

\* ------------------------------------------------------------- storage
\* node-persist: string keys to JSON values.  A key is <<prefix, id>> for the
\* string prefix + '.' + id; a store is a function on the keys that are set.
NsoTokenKey(tok) == <<"NsoToken", tok>>
NintendoAccountTokenKey(id) == <<"NintendoAccountToken", id>>

getItem(s, key) == IF key \in DOMAIN s THEN Some(s[key]) ELSE Undefined

\* (variant: a key that is set is not overwritten)
setItemKeepFirst(s, key, v) ==
    [k \in DOMAIN s \cup {key} |-> IF k \in DOMAIN s THEN s[k] ELSE v]

setItem(s, key, v) ==
    [k \in DOMAIN s \cup {key} |-> IF k = key THEN v ELSE s[k]]

\* The storage instances getToken is handed (initStorage(argv.dataPath)).
DataPaths == {"data", "data2"}

\* ------------------------------------------------- the token exchange
\* ZncApi.createWithSessionToken / ZncProxyApi.createWithSessionToken are
\* collaborators: what they answer is an input.  The answer carries the user
\* the session token belongs to, a web API server credential with its
\* expiresIn (seconds) and, when the answering side already stamped one (a
\* remote proxy returns its own saved token), an expires_at of its own.
ExchangeAnswers ==
    { [accessToken |-> "at1", expiresIn |-> 1,    remote |-> Undefined],
      [accessToken |-> "at2", expiresIn |-> 3600, remote |-> Some(777)] }
ExchangeErrors == {"AttestationFailed", "UpstreamUnavailable", "MembershipRequired"}
\* argv.zncProxyUrl of the process a call slot belongs to: slot 1 runs without
\* a proxy, slot 2 with one
ProxyUrlOf(c) == IF c = 1 THEN Undefined ELSE Some("http://proxy")

ExchangeData(tok, answer) ==
    LET user == [id |-> Jwt_decode(tok).sub]
        credential == [accessToken |-> answer.accessToken, expiresIn |-> answer.expiresIn]
    IN IF IsDefined(answer.remote)
         THEN [user |-> user, credential |-> credential, expires_at |-> Value(answer.remote)]
         ELSE [user |-> user, credential |-> credential]

\* the client object handed back next to the data
ZncProxyApi(url, tok) == [api |-> "ZncProxyApi", url |-> url, token |-> tok]
ZncApi(accessToken) == [api |-> "ZncApi", accessToken |-> accessToken]

\* (variant: expiresIn added to the clock without the conversion to ms)
NewSavedTokenSeconds(data, t) ==
    [f \in DOMAIN data \cup {"expires_at"} |->
        IF f = "expires_at" THEN t + data.credential.expiresIn ELSE data[f]]

\* {...data, expires_at: Date.now() + (data.credential.expiresIn * 1000)}
NewSavedToken(data, t) ==
    [f \in DOMAIN data \cup {"expires_at"} |->
        IF f = "expires_at" THEN t + (data.credential.expiresIn * MsPerSecond) ELSE data[f]]

\* (variant: the comparison the wrong way round)
IsMissInverted(existing, t) ==
    \/ ~IsDefined(existing)
    \/ Value(existing).expires_at >= t

\* (variant: < for <=, an entry is still used at the instant it expires)
IsMissStrict(existing, t) ==
    \/ ~IsDefined(existing)
    \/ Value(existing).expires_at < t

\* !existingToken || existingToken.expires_at <= Date.now()
IsMiss(existing, t) ==
    \/ ~IsDefined(existing)
    \/ Value(existing).expires_at <= t

\* ---------------------------------------------------------------- state
\* The HTTP server's request slots (requests in flight at the same time).
Reqs == {1, 2}

VARIABLES
    stores,     \* stores[d]: the persisted key-value store at data path d
    now,        \* Date.now(), milliseconds
    call,       \* call[c]: the position and locals of getToken call slot c
    calls,      \* getToken calls started so far
    argv,       \* the command line options of the HTTP server
    req,        \* req[r]: the position, inputs and locals of request slot r
    cache,      \* the server's in-memory caches
    uuids,      \* proxy tokens uuidgen() has made so far
    requests,   \* requests received so far
    stream,     \* the presence event stream: its monitor and what it wrote
    ipc         \* the app's nxapi:coral:openwebservice call

serverVars == <<argv, req, cache, uuids, requests, stream, ipc>>
vars == <<stores, now, call, calls, serverVars>>

\* A call slot before getToken is entered.  exchanges, reads and written are
\* history: how many exchanges and storage reads this call made and the keys
\* it wrote.
Fresh ==
    [pc |-> "idle", storage |-> "data", token |-> "", proxy_url |-> Undefined,
     existingToken |-> Undefined, data |-> Undefined, savedToken |-> Undefined,
     result |-> Undefined, error |-> "",
     exchanges |-> 0, reads |-> 0, written |-> {}]

\* A request slot before a request arrives.  authorization is the
\* Authorization header as scheme and credentials ('na <token>' or
\* 'Bearer <token>'); query and params are req.query and req.params; policy is
\* req.body.policy.  zncAuthPolicy .. zncAuth are what the middleware attaches
\* to the request, local is the value a pending await works on, cached is
\* the local `cache` of getAppData / getUserData (the entry found), status and
\* body are the response (status 0: none sent yet).  lookups, getTokens and
\* upstream are history: the request's reads of NintendoAccountToken.*, its
\* getToken calls and its calls to the Nintendo API.
NoRequest ==
    [pc |-> "idle", route |-> "", authorization |-> Undefined,
     query_token |-> Undefined, query_user |-> Undefined, nsaid |-> "",
     policy |-> Undefined,
     zncAuthPolicy |-> Undefined, zncAuthPolicyUser |-> Undefined,
     zncAuthPolicyToken |-> Undefined, znc |-> Undefined, zncAuth |-> Undefined,
     local |-> Undefined, cached |-> Undefined, status |-> 0, body |-> Undefined,
     lookups |-> 0, getTokens |-> 0, upstream |-> 0]

\* cached_announcements, cached_appdata and cached_userdata when the server
\* starts: nothing cached (the two maps are functions on the user ids cached)
NoCache == [announcements |-> Undefined, appdata |-> <<>>, userdata |-> <<>>]

\* yargs defaults: --require-token true, --update-interval 30, no
\* --znc-proxy-url
DefaultArgv == [requireToken |-> TRUE, updateInterval |-> 30, zncProxyUrl |-> Undefined]

\* No event stream is open: no monitor, nothing written.  data is the
\* snapshot the monitor holds, wake the time its sleep ends, skip and stop
\* the requests raised and not yet honoured (stop as the position the
\* monitor was at when it was raised).  The rest is history: the iterations
\* made, the snapshot held before the last fetch, what the last fetch
\* returned, the events it made the monitor dispatch, the errors reported,
\* and when the last sleep began and how long it lasted.
NoStream ==
    [pc |-> "closed", data |-> Undefined, written |-> <<>>,
     wake |-> 0, skip |-> FALSE, stop |-> Undefined,
     loops |-> 0, before |-> Undefined, fetched |-> Undefined, events |-> <<>>,
     errors |-> 0, began |-> 0, slept |-> 0]

\* No nxapi:coral:openwebservice call was made.  result is what the call's
\* promise settled with; error and handled are history: what openWebService
\* threw, and what handleOpenWebServiceError was given, call by call.
NoIpc ==
    [pc |-> "idle", webservice |-> "", qs |-> Undefined, result |-> Undefined,
     error |-> Undefined, handled |-> <<>>, invokes |-> 0]

Init ==
    /\ stores = [d \in DataPaths |-> <<>>]
    /\ now = 0
    /\ call = [c \in Calls |-> Fresh]
    /\ calls = 0
    /\ argv = DefaultArgv
    /\ req = [r \in Reqs |-> NoRequest]
    /\ cache = NoCache
    /\ uuids = 0
    /\ requests = 0
    /\ stream = NoStream
    /\ ipc = NoIpc

\* ------------------------------------------- getToken, segment by segment
\* Each operator gives the call's locals after one segment of getToken.

\* entry up to `await storage.getItem('NsoToken.' + token)`, or the throw
AfterStart(d, tok, url, t) ==
    LET err == ValidateSessionToken(tok, t) IN
    [Fresh EXCEPT !.storage = d, !.token = tok, !.proxy_url = url, !.error = err,
                  !.pc = IF err = "" THEN "getItem" ELSE "thrown"]

\* getItem resolved with `existing`: the hit/miss test; on a miss the exchange
\* is requested, on a hit the setItem of the reverse mapping is issued
AfterGetItem(cl, existing, t) ==
    [cl EXCEPT !.existingToken = existing,
               !.reads = @ + 1,
               !.exchanges = IF IsMiss(existing, t) THEN @ + 1 ELSE @,
               !.pc = IF IsMiss(existing, t) THEN "exchange" ELSE "setItemUserHit"]

\* (variant: with a proxy, an expires_at the proxy sent is kept)
AfterExchangeOkTrustProxy(cl, data, t) ==
    [cl EXCEPT !.data = Some(data),
               !.savedToken =
                   IF IsDefined(cl.proxy_url) /\ "expires_at" \in DOMAIN data
                     THEN Some(data) ELSE Some(NewSavedToken(data, t)),
               !.pc = "setItemNso"]

\* createWithSessionToken resolved with `data`: the new saved token is built
\* and the setItem of NsoToken.<token> is issued
AfterExchangeOk(cl, data, t) ==
    [cl EXCEPT !.data = Some(data),
               !.savedToken = Some(NewSavedToken(data, t)),
               !.pc = "setItemNso"]

\* (variant: the exchange is tried again)
AfterExchangeFailRetry(cl, err) ==
    [cl EXCEPT !.exchanges = @ + 1, !.pc = "exchange"]

\* createWithSessionToken rejected: getToken has no catch, the error is thrown
AfterExchangeFail(cl, err) ==
    [cl EXCEPT !.error = err, !.pc = "thrown"]

\* (variant: {...data, ...existingToken, expires_at}, the previous entry's
\* fields win over the new data)
WriteNsoMerged(s, cl) ==
    setItem(s, NsoTokenKey(cl.token),
            IF IsDefined(cl.existingToken)
              THEN [Value(cl.savedToken) EXCEPT !.credential = Value(cl.existingToken).credential]
              ELSE Value(cl.savedToken))

\* (variant: the reverse mapping is written before the credential)
WriteNsoReverseFirst(s, cl) ==
    setItem(s, NintendoAccountTokenKey(Value(cl.data).user.id), cl.token)

\* await storage.setItem('NsoToken.' + token, existingToken)
WriteNso(s, cl) == setItem(s, NsoTokenKey(cl.token), Value(cl.savedToken))

AfterSetItemNso(cl) ==
    [cl EXCEPT !.written = @ \cup {NsoTokenKey(cl.token)}, !.pc = "setItemUserMiss"]

\* await storage.setItem('NintendoAccountToken.' + data.user.id, token)
WriteUserMiss(s, cl) ==
    setItem(s, NintendoAccountTokenKey(Value(cl.data).user.id), cl.token)

\* return {nso, data: existingToken}, nso as createWithSessionToken made it
AfterSetItemUserMiss(cl) ==
    LET nso == IF IsDefined(cl.proxy_url)
                 THEN ZncProxyApi(Value(cl.proxy_url), cl.token)
                 ELSE ZncApi(Value(cl.data).credential.accessToken)
    IN [cl EXCEPT !.written = @ \cup {NintendoAccountTokenKey(Value(cl.data).user.id)},
                  !.result = Some([nso |-> nso, data |-> Value(cl.savedToken)]),
                  !.pc = "returned"]

\* (variant: the reverse mapping is recorded on a miss only)
WriteUserHitSkipped(s, cl) == s

\* await storage.setItem('NintendoAccountToken.' + existingToken.user.id, token)
WriteUserHit(s, cl) ==
    setItem(s, NintendoAccountTokenKey(Value(cl.existingToken).user.id), cl.token)

\* return {nso: proxy_url ? new ZncProxyApi(...) : new ZncApi(...), data: existingToken}
AfterSetItemUserHit(cl) ==
    LET existing == Value(cl.existingToken)
        nso == IF IsDefined(cl.proxy_url)
                 THEN ZncProxyApi(Value(cl.proxy_url), cl.token)
                 ELSE ZncApi(existing.credential.accessToken)
    IN [cl EXCEPT !.written = @ \cup {NintendoAccountTokenKey(existing.user.id)},
                  !.result = Some([nso |-> nso, data |-> existing]),
                  !.pc = "returned"]

\* --------------------------------------------------------------- actions
Start(c, tok) ==
    /\ call[c].pc \in {"idle", "returned", "thrown"}
    /\ calls < MaxCalls
    /\ call' = [call EXCEPT ![c] = AfterStart("data", tok, ProxyUrlOf(c), now)]
    /\ calls' = calls + 1
    /\ UNCHANGED <<stores, now, serverVars>>

\* (variant: a call waits while another call's refresh of the same token is
\* under way)
GetItemDoneSerialized(c) ==
    /\ call[c].pc = "getItem"
    /\ \A o \in Calls \ {c} :
          ~(/\ call[o].token = call[c].token
            /\ call[o].pc \in {"exchange", "setItemNso", "setItemUserMiss"})
    /\ call' = [call EXCEPT ![c] =
                  AfterGetItem(@, getItem(stores[@.storage], NsoTokenKey(@.token)), now)]
    /\ UNCHANGED <<stores, now, calls, serverVars>>

GetItemDone(c) ==
    /\ call[c].pc = "getItem"
    /\ call' = [call EXCEPT ![c] =
                  AfterGetItem(@, getItem(stores[@.storage], NsoTokenKey(@.token)), now)]
    /\ UNCHANGED <<stores, now, calls, serverVars>>

ExchangeOk(c, answer) ==
    /\ call[c].pc = "exchange"
    /\ call' = [call EXCEPT ![c] = AfterExchangeOk(@, ExchangeData(@.token, answer), now)]
    /\ UNCHANGED <<stores, now, calls, serverVars>>

ExchangeFail(c, err) ==
    /\ call[c].pc = "exchange"
    /\ call' = [call EXCEPT ![c] = AfterExchangeFail(@, err)]
    /\ UNCHANGED <<stores, now, calls, serverVars>>

SetItemNso(c) ==
    /\ call[c].pc = "setItemNso"
    /\ stores' = [stores EXCEPT ![call[c].storage] = WriteNso(@, call[c])]
    /\ call' = [call EXCEPT ![c] = AfterSetItemNso(@)]
    /\ UNCHANGED <<now, calls, serverVars>>

SetItemUserMiss(c) ==
    /\ call[c].pc = "setItemUserMiss"
    /\ stores' = [stores EXCEPT ![call[c].storage] = WriteUserMiss(@, call[c])]
    /\ call' = [call EXCEPT ![c] = AfterSetItemUserMiss(@)]
    /\ UNCHANGED <<now, calls, serverVars>>

SetItemUserHit(c) ==
    /\ call[c].pc = "setItemUserHit"
    /\ stores' = [stores EXCEPT ![call[c].storage] = WriteUserHit(@, call[c])]
    /\ call' = [call EXCEPT ![c] = AfterSetItemUserHit(@)]
    /\ UNCHANGED <<now, calls, serverVars>>

\* the clock advances by a second
Tick ==
    /\ now + MsPerSecond <= MaxSeconds * MsPerSecond
    /\ now' = now + MsPerSecond
    /\ UNCHANGED <<stores, call, calls, serverVars>>

Next ==
    \/ \E c \in Calls, tok \in SessionTokens : Start(c, tok)
    \/ \E c \in Calls : GetItemDone(c)
    \/ \E c \in Calls, answer \in ExchangeAnswers : ExchangeOk(c, answer)
    \/ \E c \in Calls, err \in ExchangeErrors : ExchangeFail(c, err)
    \/ \E c \in Calls : SetItemNso(c)
    \/ \E c \in Calls : SetItemUserMiss(c)
    \/ \E c \in Calls : SetItemUserHit(c)
    \/ Tick

Spec == Init /\ [][Next]_vars

\* ------------------------------------------------ the lockstep comparison
\* The same getToken call made twice, by slot 1 without a proxy URL on data
\* path "data" and by slot 2 with one on data path "data2".  Both runs start
\* from equal stores, read the same clock and are given the same answer by
\* whichever collaborator performs the exchange.
StorageOf(c) == IF c = 1 THEN "data" ELSE "data2"

AtPc(pc) == {c \in Calls : call[c].pc = pc}

PairStart(tok) ==
    /\ \A c \in Calls : call[c].pc \in {"idle", "returned", "thrown"}
    /\ calls < MaxCalls
    /\ call' = [c \in Calls |-> AfterStart(StorageOf(c), tok, ProxyUrlOf(c), now)]
    /\ calls' = calls + 1
    /\ UNCHANGED <<stores, now, serverVars>>

PairGetItemDone ==
    /\ AtPc("getItem") # {}
    /\ call' = [c \in Calls |->
                  IF c \in AtPc("getItem")
                    THEN AfterGetItem(call[c],
                           getItem(stores[call[c].storage], NsoTokenKey(call[c].token)), now)
                    ELSE call[c]]
    /\ UNCHANGED <<stores, now, calls, serverVars>>

PairExchangeOk(answer) ==
    /\ AtPc("exchange") # {}
    /\ call' = [c \in Calls |->
                  IF c \in AtPc("exchange")
                    THEN AfterExchangeOk(call[c], ExchangeData(call[c].token, answer), now)
                    ELSE call[c]]
    /\ UNCHANGED <<stores, now, calls, serverVars>>

PairExchangeFail(err) ==
    /\ AtPc("exchange") # {}
    /\ call' = [c \in Calls |->
                  IF c \in AtPc("exchange") THEN AfterExchangeFail(call[c], err) ELSE call[c]]
    /\ UNCHANGED <<stores, now, calls, serverVars>>

PairSetItemNso ==
    /\ AtPc("setItemNso") # {}
    /\ stores' = [d \in DataPaths |->
                    IF \E c \in AtPc("setItemNso") : call[c].storage = d
                      THEN WriteNso(stores[d],
                             call[CHOOSE c \in AtPc("setItemNso") : call[c].storage = d])
                      ELSE stores[d]]
    /\ call' = [c \in Calls |->
                  IF c \in AtPc("setItemNso") THEN AfterSetItemNso(call[c]) ELSE call[c]]
    /\ UNCHANGED <<now, calls, serverVars>>

PairSetItemUserMiss ==
    /\ AtPc("setItemUserMiss") # {}
    /\ stores' = [d \in DataPaths |->
                    IF \E c \in AtPc("setItemUserMiss") : call[c].storage = d
                      THEN WriteUserMiss(stores[d],
                             call[CHOOSE c \in AtPc("setItemUserMiss") : call[c].storage = d])
                      ELSE stores[d]]
    /\ call' = [c \in Calls |->
                  IF c \in AtPc("setItemUserMiss") THEN AfterSetItemUserMiss(call[c]) ELSE call[c]]
    /\ UNCHANGED <<now, calls, serverVars>>

PairSetItemUserHit ==
    /\ AtPc("setItemUserHit") # {}
    /\ stores' = [d \in DataPaths |->
                    IF \E c \in AtPc("setItemUserHit") : call[c].storage = d
                      THEN WriteUserHit(stores[d],
                             call[CHOOSE c \in AtPc("setItemUserHit") : call[c].storage = d])
                      ELSE stores[d]]
    /\ call' = [c \in Calls |->
                  IF c \in AtPc("setItemUserHit") THEN AfterSetItemUserHit(call[c]) ELSE call[c]]
    /\ UNCHANGED <<now, calls, serverVars>>

NextProxy ==
    \/ \E tok \in SessionTokens : PairStart(tok)
    \/ PairGetItemDone
    \/ \E answer \in ExchangeAnswers : PairExchangeOk(answer)
    \/ \E err \in ExchangeErrors : PairExchangeFail(err)
    \/ PairSetItemNso
    \/ PairSetItemUserMiss
    \/ PairSetItemUserHit
    \/ Tick

SpecProxy == Init /\ [][NextProxy]_vars

\* ======================================= the HTTP proxy (http-server.ts)
\* A request runs through its route's middleware chain; every middleware and
\* handler is an async function and, as with getToken, each action is one
\* run-to-the-next-await segment of one request.  The operators below give
\* the request after a segment; they are composed in the order the route
\* chains its middleware, so that a segment runs on through every next()
\* that needs no await.

\* ------------------------------------------------- storage of the proxy
ZncProxyAuthPolicyKey(token) == <<"ZncProxyAuthPolicy", token>>
ZncProxyAuthPoliciesKey(user) == <<"ZncProxyAuthPolicies", user>>
NintendoAccountIdsKey == <<"NintendoAccountIds", "">>

\* (variant: storage.clear(), every key is removed)
removeItemAll(s, key) == <<>>

removeItem(s, key) == [k \in DOMAIN s \ {key} |-> s[k]]

\* `await storage.getItem(key) ?? []`
OrEmpty(o) == IF IsDefined(o) THEN Value(o) ELSE <<>>
\* an array used through `new Set(array)` ... `[...set]`
Includes(list, x) == \E i \in 1..Len(list) : list[i] = x
SetAdd(list, x) == IF Includes(list, x) THEN list ELSE Append(list, x)
\* (variant: the set is emptied)
SetClear(list, x) == <<>>
SetDelete(list, x) == SelectSeq(list, LAMBDA y : y # x)

\* uuidgen(): the n-th token made
ProxyTokenName(n) ==
    CASE n = 1 -> "p1" [] n = 2 -> "p2" [] n = 3 -> "p3" [] n = 4 -> "p4"
      [] OTHER -> "p5"

\* ------------------------------------------------------------- policies
\* AuthPolicy: a JSON object, here a record of the fields that are present.
\* policy.<capability> is truthy
Flag(policy, f) == f \in DOMAIN policy /\ policy[f] = TRUE
\* policy.friends / policy.friends_presence is truthy (an array always is)
Has(policy, f) == f \in DOMAIN policy

\* ------------------------------------------------------------- responses
Respond(rq, status, body) ==
    [rq EXCEPT !.status = status, !.body = body, !.local = Undefined, !.pc = "done"]

\* Content-Type application/json, res.end(JSON.stringify(value)); the status
\* code is Node's default
Json(rq, value) == Respond(rq, 200, Some(value))

tokenUnauthorised(rq) == Respond(rq, 403, Some([error |-> "token_unauthorised"]))

NoPolicy(rq) == Respond(rq, 403, Some([error |-> "no_policy"]))

NotFound(rq) ==
    Respond(rq, 404,
        Some([error |-> "not_found",
              error_message |-> "The user is not friends with the authenticated user."]))

\* the catch blocks: JSON.stringify of an Error object is {}
ServerError(rq, message) ==
    Respond(rq, 500, Some([error |-> "{}", error_message |-> message]))

\* ---------------------------------------------------------------- routes
AppDataRoutes ==
    {"GET /api/znc/friends", "GET /api/znc/friends/presence",
     "GET /api/znc/friend/:nsaid", "GET /api/znc/friend/:nsaid/presence",
     "GET /api/znc/webservices", "GET /api/znc/activeevent"}
UserDataRoutes == {"GET /api/znc/user", "GET /api/znc/user/presence"}
\* the routes that begin authToken, <policy gate>, localAuth, nsoAuth
GatedRoutes == {"GET /api/znc/announcements"} \cup AppDataRoutes \cup UserDataRoutes
\* the routes that begin authToken and have no other middleware
TokenRoutes == {"GET /api/znc/token", "DELETE /api/znc/token"}
\* the routes that begin nsoAuth
NsoAuthRoutes ==
    {"GET /api/znc/auth", "GET /api/znc/tokens", "POST /api/znc/tokens",
     "GET /api/znc/webservice/:id/token"}

\* --------------------------------------------------- the final handlers
UserIdOf(rq) == Value(rq.zncAuth).user.id

\* (variant: the first friend of the list, whoever was asked for)
FindFriendFirst(friends, nsaid) ==
    IF Len(friends) > 0 THEN Some(friends[1]) ELSE Undefined

\* friends.find(f => f.nsaId === req.params.nsaid)
FindFriend(friends, nsaid) ==
    IF \E i \in 1..Len(friends) : friends[i].nsaId = nsaid
      THEN Some(friends[CHOOSE i \in 1..Len(friends) :
                          /\ friends[i].nsaId = nsaid
                          /\ \A j \in 1..(i - 1) : friends[j].nsaId # nsaid])
      ELSE Undefined

\* (variant: the allowlist is not applied to the list)
ListedFriendsUnfiltered(friends, policy) == friends

\* GET /api/znc/friends: the friends the policy's allowlist lets through
ListedFriends(friends, policy) ==
    IF IsDefined(policy) /\ Has(Value(policy), "friends")
      THEN SelectSeq(friends, LAMBDA f : Includes(Value(policy).friends, f.nsaId))
      ELSE friends

\* (variant: the friends allowlist is consulted before friends_presence)
PresenceSkippedFriendsFirst(policy, nsaId) ==
    /\ IsDefined(policy)
    /\ LET p == Value(policy) IN
       \/ Has(p, "friends") /\ ~Includes(p.friends, nsaId)
       \/ /\ Has(p, "friends_presence") /\ ~Has(p, "friends")
          /\ ~Includes(p.friends_presence, nsaId)

\* GET /api/znc/friends/presence: the loop's `continue` conditions
PresenceSkipped(policy, nsaId) ==
    /\ IsDefined(policy)
    /\ LET p == Value(policy) IN
       \/ Has(p, "friends_presence") /\ ~Includes(p.friends_presence, nsaId)
       \/ /\ Has(p, "friends") /\ ~Has(p, "friends_presence")
          /\ ~Includes(p.friends, nsaId)

\* the object presence[friend.nsaId] = friend.presence builds (a later friend
\* of the same id overwrites an earlier one)
ListedPresence(friends, policy) ==
    LET kept == {i \in 1..Len(friends) : ~PresenceSkipped(policy, friends[i].nsaId)}
        last(id) == CHOOSE i \in kept :
                       /\ friends[i].nsaId = id
                       /\ \A j \in kept : friends[j].nsaId = id => j <= i
    IN [id \in {friends[i].nsaId : i \in kept} |-> friends[last(id)].presence]

Handler(rq, ch) ==
    IF rq.route \in AppDataRoutes THEN
        LET entry == ch.appdata[UserIdOf(rq)]
            friend == FindFriend(entry.friends, rq.nsaid)
        IN CASE rq.route = "GET /api/znc/friends" ->
                  Json(rq, [friends |-> ListedFriends(entry.friends, rq.zncAuthPolicy),
                            updated |-> entry.updated])
             [] rq.route = "GET /api/znc/friends/presence" ->
                  Json(rq, ListedPresence(entry.friends, rq.zncAuthPolicy))
             [] rq.route = "GET /api/znc/friend/:nsaid" ->
                  IF ~IsDefined(friend) THEN NotFound(rq)
                  ELSE Json(rq, [friend |-> Value(friend), updated |-> entry.updated])
             [] rq.route = "GET /api/znc/friend/:nsaid/presence" ->
                  IF ~IsDefined(friend) THEN NotFound(rq)
                  ELSE Json(rq, Value(friend).presence)
             [] rq.route = "GET /api/znc/webservices" ->
                  Json(rq, [webservices |-> entry.webservices, updated |-> entry.updated])
             [] rq.route = "GET /api/znc/activeevent" ->
                  Json(rq, [activeevent |-> entry.activeevent, updated |-> entry.updated])
    ELSE
        LET entry == ch.userdata[UserIdOf(rq)]
        IN IF rq.route = "GET /api/znc/user"
             THEN Json(rq, [user |-> entry.user, updated |-> entry.updated])
             ELSE Json(rq, entry.user.presence)

\* ------------------------------------------- getAppData and getUserData
\* cached_appdata.get(id) / cached_userdata.get(id)
MapGet(entries, id) == IF id \in DOMAIN entries THEN Some(entries[id]) ELSE Undefined

\* (variant: the interval is taken in seconds, the clock in milliseconds)
IsFreshSeconds(entries, id, interval, t) ==
    id \in DOMAIN entries /\ entries[id].updated + (interval \div MsPerSecond) > t

\* (variant: an entry is used however old it is)
IsFreshForever(entries, id, interval, t) == id \in DOMAIN entries

\* cache && ((cache[3] + updateInterval) > Date.now())
IsFresh(entries, id, interval, t) ==
    id \in DOMAIN entries /\ entries[id].updated + interval > t

UpdateInterval(av) == av.updateInterval * MsPerSecond

\* entry of getAppData / getUserData: cached data is used, or the first call
\* to the Nintendo API is made
GetDataEnter(rq, av, ch, t) ==
    IF rq.route \in AppDataRoutes THEN
        LET found == [rq EXCEPT !.cached = MapGet(ch.appdata, UserIdOf(rq))] IN
        IF IsFresh(ch.appdata, UserIdOf(rq), UpdateInterval(av), t)
          THEN Handler(found, ch)
          ELSE [found EXCEPT !.pc = "getFriendList", !.upstream = @ + 1]
    ELSE
        LET found == [rq EXCEPT !.cached = MapGet(ch.userdata, UserIdOf(rq))] IN
        IF IsFresh(ch.userdata, UserIdOf(rq), UpdateInterval(av), t)
          THEN Handler(found, ch)
          ELSE [found EXCEPT !.pc = "getCurrentUser", !.upstream = @ + 1]

\* ----------------------------------------------------------- after nsoAuth
\* nsoAuth called next(): what follows it in the route's chain, up to the
\* next await
AfterNsoAuth(rq, av, ch, t) ==
    CASE rq.route = "GET /api/znc/auth" -> Json(rq, Value(rq.zncAuth))
      [] rq.route = "GET /api/znc/tokens" -> [rq EXCEPT !.pc = "tokensGetIds"]
      [] rq.route = "POST /api/znc/tokens" -> [rq EXCEPT !.pc = "bodyParser"]
      [] rq.route = "GET /api/znc/webservice/:id/token" ->
           [rq EXCEPT !.pc = "getWebServiceToken", !.upstream = @ + 1]
      [] rq.route = "GET /api/znc/announcements" ->
           IF IsDefined(ch.announcements)
             THEN Json(rq, [announcements |-> Value(ch.announcements)])
             ELSE [rq EXCEPT !.pc = "getAnnouncements", !.upstream = @ + 1]
      [] OTHER -> GetDataEnter(rq, av, ch, t)

\* ------------------------------------------------------------------ nsoAuth
\* getToken(storage, nintendoAccountSessionToken, argv.zncProxyUrl) is called
NsoAuthGetToken(rq, tok) ==
    [rq EXCEPT !.pc = "getToken", !.local = Some(tok), !.getTokens = @ + 1]

\* entry of nsoAuth: a request with a proxy token's user awaits that user's
\* session token, any other must carry 'na <session token>'
NsoAuthEnter(rq) ==
    IF IsDefined(rq.zncAuthPolicyUser)
      THEN [rq EXCEPT !.pc = "nsoAuthNaToken", !.lookups = @ + 1]
    ELSE IF ~IsDefined(rq.authorization) \/ Value(rq.authorization).scheme # "na"
      THEN ServerError(rq, "Requires Nintendo Account authentication")
    ELSE NsoAuthGetToken(rq, Value(rq.authorization).value)

\* getItem('NintendoAccountToken.' + req.zncAuthPolicyUser) resolved
AfterNsoAuthNaToken(rq, na_token) ==
    IF ~IsDefined(na_token)
      THEN ServerError(rq, "Nintendo Account for this token must reauthenticate")
      ELSE NsoAuthGetToken(rq, Value(na_token))

\* getToken returned {nso, data}; getItem('NintendoAccountIds') resolved with
\* `ids`: the user is added and the setItem is issued
AfterNsoAuthGetToken(rq, result, ids) ==
    [rq EXCEPT !.znc = Some(result.nso), !.zncAuth = Some(result.data),
               !.local = Some(SetAdd(OrEmpty(ids), result.data.user.id)),
               !.pc = "nsoAuthSetIds"]

\* ---------------------------------------------------------------- localAuth
Authorization(scheme, value) == [scheme |-> scheme, value |-> value]

LocalAuthEnter(rq, av) ==
    IF av.requireToken \/ ~IsDefined(rq.query_user)
      THEN NsoAuthEnter(rq)
      ELSE [rq EXCEPT !.pc = "localAuth", !.lookups = @ + 1]

\* getItem('NintendoAccountToken.' + req.query.user) resolved
AfterLocalAuth(rq, token) ==
    IF ~IsDefined(token) THEN NsoAuthEnter(rq)
    ELSE NsoAuthEnter([rq EXCEPT !.authorization = Some(Authorization("na", Value(token)))])

\* ---------------------------------------------------------- the policy gate
\* (variant: the gate of a friend route tests the capability alone)
DeniedFlagsOnly(route, p, nsaid) ==
    CASE route = "GET /api/znc/announcements" -> ~Flag(p, "announcements")
      [] route = "GET /api/znc/friends" -> ~Flag(p, "list_friends")
      [] route = "GET /api/znc/friends/presence" -> ~Flag(p, "list_friends_presence")
      [] route = "GET /api/znc/friend/:nsaid" -> ~Flag(p, "friend")
      [] route = "GET /api/znc/friend/:nsaid/presence" -> ~Flag(p, "friend_presence")
      [] route = "GET /api/znc/webservices" -> ~Flag(p, "webservices")
      [] route = "GET /api/znc/activeevent" -> ~Flag(p, "activeevent")
      [] route = "GET /api/znc/user" -> ~Flag(p, "current_user")
      [] route = "GET /api/znc/user/presence" -> ~Flag(p, "current_user_presence")

\* The inline middleware after authToken on a gated route, given that
\* req.zncAuthPolicy is set: TRUE when it answers tokenUnauthorised.
Denied(route, p, nsaid) ==
    CASE route = "GET /api/znc/announcements" -> ~Flag(p, "announcements")
      [] route = "GET /api/znc/friends" -> ~Flag(p, "list_friends")
      [] route = "GET /api/znc/friends/presence" -> ~Flag(p, "list_friends_presence")
      [] route = "GET /api/znc/friend/:nsaid" ->
           \/ ~Flag(p, "friend")
           \/ Has(p, "friends") /\ ~Includes(p.friends, nsaid)
      [] route = "GET /api/znc/friend/:nsaid/presence" ->
           \/ ~Flag(p, "friend_presence")
           \/ Has(p, "friends_presence") /\ ~Includes(p.friends_presence, nsaid)
           \/ /\ Has(p, "friends") /\ ~Has(p, "friends_presence")
              /\ ~Includes(p.friends, nsaid)
      [] route = "GET /api/znc/webservices" -> ~Flag(p, "webservices")
      [] route = "GET /api/znc/activeevent" -> ~Flag(p, "activeevent")
      [] route = "GET /api/znc/user" -> ~Flag(p, "current_user")
      [] route = "GET /api/znc/user/presence" ->
           \/ ~Flag(p, "current_user_presence")
           \/ ~Has(p, "current_user_presence") /\ ~Flag(p, "current_user")

\* (variant: a capability is refused only when the policy says false)
PolicyGateExplicit(rq, av) ==
    LET p == Value(rq.zncAuthPolicy) IN
    IF ~IsDefined(rq.zncAuthPolicy) THEN LocalAuthEnter(rq, av)
    ELSE IF /\ \E f \in DOMAIN p \ {"friends", "friends_presence"} : p[f] = FALSE
            /\ Denied(rq.route, p, rq.nsaid)
      THEN tokenUnauthorised(rq)
    ELSE LocalAuthEnter(rq, av)

\* if (!req.zncAuthPolicy) return next(); ... tokenUnauthorised or next()
PolicyGate(rq, av) ==
    IF ~IsDefined(rq.zncAuthPolicy) THEN LocalAuthEnter(rq, av)
    ELSE IF Denied(rq.route, Value(rq.zncAuthPolicy), rq.nsaid) THEN tokenUnauthorised(rq)
    ELSE LocalAuthEnter(rq, av)

\* ---------------------------------------------------------------- authToken
\* authToken called next(): the handler of GET / DELETE /api/znc/token up to
\* its first await, or the policy gate of a gated route
AfterAuthToken(rq, av) ==
    IF rq.route \in TokenRoutes THEN
        IF ~IsDefined(rq.zncAuthPolicyToken) THEN NoPolicy(rq)
        ELSE IF rq.route = "GET /api/znc/token"
          THEN Respond(rq, 200, rq.zncAuthPolicy)
          ELSE [rq EXCEPT !.pc = "removeItem"]
    ELSE PolicyGate(rq, av)

IsBearer(rq) == IsDefined(rq.authorization) /\ Value(rq.authorization).scheme = "Bearer"

\* the token authToken looks up: the Bearer credentials, else req.query.token
PresentedToken(rq) ==
    IF IsBearer(rq) THEN Value(rq.authorization).value ELSE Value(rq.query_token)

AuthTokenEnter(rq, av) ==
    IF IsBearer(rq) \/ IsDefined(rq.query_token)
      THEN [rq EXCEPT !.pc = "authToken"]
      ELSE AfterAuthToken(rq, av)

\* getItem('ZncProxyAuthPolicy.' + token) resolved with `auth`
AfterAuthTokenLookup(rq, auth, av) ==
    IF ~IsDefined(auth) THEN AfterAuthToken(rq, av)
    ELSE AfterAuthToken(
            [rq EXCEPT !.zncAuthPolicy = Value(auth).policy,
                       !.zncAuthPolicyUser = Some(Value(auth).user),
                       !.zncAuthPolicyToken = Some(PresentedToken(rq))], av)

\* a request arrives: its route's first middleware runs
Arrive(rq, av) ==
    IF rq.route \in GatedRoutes \cup TokenRoutes THEN AuthTokenEnter(rq, av)
    ELSE NsoAuthEnter(rq)

\* ------------------------------------------------------ the token handlers
\* GET /api/znc/tokens: the records of the listed token ids that exist
TokenList(s, token_ids) ==
    LET present == SelectSeq(token_ids, LAMBDA id : ZncProxyAuthPolicyKey(id) \in DOMAIN s)
    IN [i \in 1..Len(present) |->
          LET auth == s[ZncProxyAuthPolicyKey(present[i])]
          IN [token |-> present[i], user |-> auth.user, policy |-> auth.policy,
              created_at |-> auth.created_at]]

\* POST /api/znc/tokens: the AuthToken record made for the n-th token
NewAuthToken(rq, t) ==
    [user |-> UserIdOf(rq), policy |-> rq.policy, created_at |-> t \div MsPerSecond]

AfterBodyParser(rq, n, t) ==
    [rq EXCEPT !.local = Some([token |-> ProxyTokenName(n), auth |-> NewAuthToken(rq, t),
                               tokens |-> <<>>]),
               !.pc = "tokensPostPolicy"]

\* res.end(JSON.stringify({token, ...auth}))
TokenCreated(rq) ==
    LET l == Value(rq.local) IN
    Json(rq, [token |-> l.token, user |-> l.auth.user, policy |-> l.auth.policy,
              created_at |-> l.auth.created_at])

\* ------------------------------------------------------ the Nintendo API
\* What the upstream API answers is an input.
Presence(state, titleId, description) ==
    [state |-> state, game |-> [titleId |-> titleId, sysDescription |-> description]]
Friend(nsaId, presence) == [nsaId |-> nsaId, presence |-> presence]

FriendLists ==
    { << Friend("f1", Presence("ONLINE", "game1", "")),
         Friend("f2", Presence("OFFLINE", "", "")) >>,
      << Friend("f2", Presence("PLAYING", "game1", "lobby")) >> }
\* the other answers, one of each kind
UpstreamResult(pc) ==
    CASE pc = "getWebServices" -> << [id |-> "ws1", name |-> "SplatNet 2"] >>
      [] pc = "getActiveEvent" -> [id |-> "ev1"]
      [] pc = "getCurrentUser" -> [nsaId |-> "n1", presence |-> Presence("ONLINE", "game1", "")]
      [] pc = "getAnnouncements" -> << [announcementId |-> "a1"] >>
      [] pc = "getWebServiceToken" -> [accessToken |-> "wst1"]
UpstreamErrors == {"ErrorResponse"}

UpstreamPcs ==
    {"getFriendList", "getWebServices", "getActiveEvent", "getCurrentUser",
     "getAnnouncements", "getWebServiceToken"}

\* cached_appdata.set / cached_userdata.set
SetEntry(entries, id, entry) ==
    [k \in DOMAIN entries \cup {id} |-> IF k = id THEN entry ELSE entries[k]]

\* --------------------------------------------------------------- actions
\* request r moves to rq; a request that enters getToken starts call slot r
Step(r, rq) ==
    /\ req' = [req EXCEPT ![r] = rq]
    /\ IF rq.pc = "getToken"
         THEN /\ call' = [call EXCEPT ![r] =
                            AfterStart("data", Value(rq.local), argv.zncProxyUrl, now)]
              /\ calls' = calls + 1
         ELSE UNCHANGED <<call, calls>>

\* a slot that holds no request in flight
IsFree(r) == req[r].pc \in {"idle", "done"}

\* A request arrives and is given the first free slot, whose previous
\* request, long answered, is forgotten.
Receive(r, request) ==
    /\ IsFree(r)
    /\ \A o \in Reqs : IsFree(o) => r <= o
    /\ requests < MaxRequests
    /\ requests' = requests + 1
    /\ Step(r, Arrive([NoRequest EXCEPT !.route = request.route,
                                        !.authorization = request.authorization,
                                        !.query_token = request.query_token,
                                        !.query_user = request.query_user,
                                        !.nsaid = request.nsaid,
                                        !.policy = request.policy], argv))
    /\ UNCHANGED <<stores, now, argv, cache, uuids, stream, ipc>>

\* a client that sends its next request when the last one was answered
ReceiveNext(request) ==
    /\ \A o \in Reqs : IsFree(o)
    /\ \E r \in Reqs : Receive(r, request)

AuthTokenDone(r) ==
    /\ req[r].pc = "authToken"
    /\ Step(r, AfterAuthTokenLookup(req[r],
                  getItem(stores["data"], ZncProxyAuthPolicyKey(PresentedToken(req[r]))), argv))
    /\ UNCHANGED <<stores, now, argv, cache, uuids, requests, stream, ipc>>

LocalAuthDone(r) ==
    /\ req[r].pc = "localAuth"
    /\ Step(r, AfterLocalAuth(req[r],
                  getItem(stores["data"], NintendoAccountTokenKey(Value(req[r].query_user)))))
    /\ UNCHANGED <<stores, now, argv, cache, uuids, requests, stream, ipc>>

NsoAuthNaTokenDone(r) ==
    /\ req[r].pc = "nsoAuthNaToken"
    /\ Step(r, AfterNsoAuthNaToken(req[r],
                  getItem(stores["data"], NintendoAccountTokenKey(Value(req[r].zncAuthPolicyUser)))))
    /\ UNCHANGED <<stores, now, argv, cache, uuids, requests, stream, ipc>>

\* getToken returned; the read of NintendoAccountIds it is followed by
NsoAuthGetTokenDone(r) ==
    /\ req[r].pc = "getToken"
    /\ call[r].pc = "returned"
    /\ Step(r, AfterNsoAuthGetToken(req[r], Value(call[r].result),
                  getItem(stores["data"], NintendoAccountIdsKey)))
    /\ UNCHANGED <<stores, now, argv, cache, uuids, requests, stream, ipc>>

\* getToken threw: nsoAuth's catch
NsoAuthGetTokenThrown(r) ==
    /\ req[r].pc = "getToken"
    /\ call[r].pc = "thrown"
    /\ Step(r, ServerError(req[r], call[r].error))
    /\ UNCHANGED <<stores, now, argv, cache, uuids, requests, stream, ipc>>

\* setItem('NintendoAccountIds', [...users]) done, next()
NsoAuthSetIdsDone(r) ==
    /\ req[r].pc = "nsoAuthSetIds"
    /\ stores' = [stores EXCEPT !["data"] = setItem(@, NintendoAccountIdsKey, Value(req[r].local))]
    /\ Step(r, AfterNsoAuth([req[r] EXCEPT !.local = Undefined], argv, cache, now))
    /\ UNCHANGED <<now, argv, cache, uuids, requests, stream, ipc>>

\* DELETE /api/znc/token
RemoveItemDone(r) ==
    /\ req[r].pc = "removeItem"
    /\ stores' = [stores EXCEPT !["data"] =
                    removeItem(@, ZncProxyAuthPolicyKey(Value(req[r].zncAuthPolicyToken)))]
    /\ Step(r, [req[r] EXCEPT !.pc = "deleteIds"])
    /\ UNCHANGED <<now, argv, cache, uuids, requests, stream, ipc>>

DeleteIdsDone(r) ==
    /\ req[r].pc = "deleteIds"
    /\ LET tokens == OrEmpty(getItem(stores["data"],
                        ZncProxyAuthPoliciesKey(Value(req[r].zncAuthPolicyUser))))
       IN Step(r, [req[r] EXCEPT
                     !.local = Some(SetDelete(tokens, Value(req[r].zncAuthPolicyToken))),
                     !.pc = "deleteIdsSet"])
    /\ UNCHANGED <<stores, now, argv, cache, uuids, requests, stream, ipc>>

DeleteIdsSetDone(r) ==
    /\ req[r].pc = "deleteIdsSet"
    /\ stores' = [stores EXCEPT !["data"] =
                    setItem(@, ZncProxyAuthPoliciesKey(Value(req[r].zncAuthPolicyUser)),
                            Value(req[r].local))]
    /\ Step(r, Respond(req[r], 204, Undefined))
    /\ UNCHANGED <<now, argv, cache, uuids, requests, stream, ipc>>

\* GET /api/znc/tokens
TokensGetIdsDone(r) ==
    /\ req[r].pc = "tokensGetIds"
    /\ Step(r, [req[r] EXCEPT
                  !.local = Some(OrEmpty(getItem(stores["data"],
                                    ZncProxyAuthPoliciesKey(UserIdOf(req[r]))))),
                  !.pc = "tokensGetPolicies"])
    /\ UNCHANGED <<stores, now, argv, cache, uuids, requests, stream, ipc>>

\* the getItem calls of Promise.all resolved
TokensGetPoliciesDone(r) ==
    /\ req[r].pc = "tokensGetPolicies"
    /\ Step(r, Json(req[r], [tokens |-> TokenList(stores["data"], Value(req[r].local))]))
    /\ UNCHANGED <<stores, now, argv, cache, uuids, requests, stream, ipc>>

\* POST /api/znc/tokens
BodyParserDone(r) ==
    /\ req[r].pc = "bodyParser"
    /\ uuids' = uuids + 1
    /\ Step(r, AfterBodyParser(req[r], uuids + 1, now))
    /\ UNCHANGED <<stores, now, argv, cache, requests, stream, ipc>>

TokensPostPolicyDone(r) ==
    /\ req[r].pc = "tokensPostPolicy"
    /\ stores' = [stores EXCEPT !["data"] =
                    setItem(@, ZncProxyAuthPolicyKey(Value(req[r].local).token),
                            Value(req[r].local).auth)]
    /\ Step(r, [req[r] EXCEPT !.pc = "tokensPostIds"])
    /\ UNCHANGED <<now, argv, cache, uuids, requests, stream, ipc>>

TokensPostIdsDone(r) ==
    /\ req[r].pc = "tokensPostIds"
    /\ LET tokens == OrEmpty(getItem(stores["data"], ZncProxyAuthPoliciesKey(UserIdOf(req[r]))))
           l == Value(req[r].local)
       IN Step(r, [req[r] EXCEPT
                     !.local = Some([l EXCEPT !.tokens = SetAdd(tokens, l.token)]),
                     !.pc = "tokensPostIdsSet"])
    /\ UNCHANGED <<stores, now, argv, cache, uuids, requests, stream, ipc>>

TokensPostIdsSetDone(r) ==
    /\ req[r].pc = "tokensPostIdsSet"
    /\ stores' = [stores EXCEPT !["data"] =
                    setItem(@, ZncProxyAuthPoliciesKey(UserIdOf(req[r])),
                            Value(req[r].local).tokens)]
    /\ Step(r, TokenCreated(req[r]))
    /\ UNCHANGED <<now, argv, cache, uuids, requests, stream, ipc>>

\* getAppData: the three calls, one after the other
GetFriendListOk(r, friends) ==
    /\ req[r].pc = "getFriendList"
    /\ Step(r, [req[r] EXCEPT !.local = Some([friends |-> friends]),
                              !.upstream = @ + 1, !.pc = "getWebServices"])
    /\ UNCHANGED <<stores, now, argv, cache, uuids, requests, stream, ipc>>

GetWebServicesOk(r) ==
    /\ req[r].pc = "getWebServices"
    /\ Step(r, [req[r] EXCEPT
                  !.local = Some([friends |-> Value(@).friends, webservices |-> UpstreamResult("getWebServices")]),
                  !.upstream = @ + 1, !.pc = "getActiveEvent"])
    /\ UNCHANGED <<stores, now, argv, cache, uuids, requests, stream, ipc>>

GetActiveEventOk(r) ==
    /\ req[r].pc = "getActiveEvent"
    /\ LET l == Value(req[r].local)
           entry == [friends |-> l.friends, webservices |-> l.webservices,
                     activeevent |-> UpstreamResult("getActiveEvent"), updated |-> now]
           ch == [cache EXCEPT !.appdata = SetEntry(@, UserIdOf(req[r]), entry)]
       IN /\ cache' = ch
          /\ Step(r, Handler([req[r] EXCEPT !.local = Undefined], ch))
    /\ UNCHANGED <<stores, now, argv, uuids, requests, stream, ipc>>

\* getUserData
GetCurrentUserOk(r) ==
    /\ req[r].pc = "getCurrentUser"
    /\ LET ch == [cache EXCEPT !.userdata =
                    SetEntry(@, UserIdOf(req[r]), [user |-> UpstreamResult("getCurrentUser"), updated |-> now])]
       IN /\ cache' = ch
          /\ Step(r, Handler(req[r], ch))
    /\ UNCHANGED <<stores, now, argv, uuids, requests, stream, ipc>>

\* (variant: the list fetched is answered and not kept)
GetAnnouncementsOkUncached(r, announcements) ==
    /\ req[r].pc = "getAnnouncements"
    /\ Step(r, Json(req[r], [announcements |-> announcements]))
    /\ UNCHANGED <<stores, now, argv, cache, uuids, requests, stream, ipc>>

\* GET /api/znc/announcements
GetAnnouncementsOk(r, announcements) ==
    /\ req[r].pc = "getAnnouncements"
    /\ cache' = [cache EXCEPT !.announcements = Some(announcements)]
    /\ Step(r, Json(req[r], [announcements |-> announcements]))
    /\ UNCHANGED <<stores, now, argv, uuids, requests, stream, ipc>>

\* GET /api/znc/webservice/:id/token
GetWebServiceTokenOk(r) ==
    /\ req[r].pc = "getWebServiceToken"
    /\ Step(r, Json(req[r], [token |-> UpstreamResult("getWebServiceToken")]))
    /\ UNCHANGED <<stores, now, argv, cache, uuids, requests, stream, ipc>>

\* (variant: when a refresh fails the entry found before it is served)
UpstreamFailServesStale(r, err) ==
    /\ req[r].pc \in UpstreamPcs
    /\ Step(r, IF IsDefined(req[r].cached)
                 THEN Handler([req[r] EXCEPT !.local = Undefined], cache)
                 ELSE ServerError(req[r], err))
    /\ UNCHANGED <<stores, now, argv, cache, uuids, requests, stream, ipc>>

\* a call to the Nintendo API rejected: the catch around it
UpstreamFail(r, err) ==
    /\ req[r].pc \in UpstreamPcs
    /\ Step(r, ServerError(req[r], err))
    /\ UNCHANGED <<stores, now, argv, cache, uuids, requests, stream, ipc>>

\* ------------------------------------------------- the requests received
Request(route, authorization, query_token, query_user, nsaid, policy) ==
    [route |-> route, authorization |-> authorization, query_token |-> query_token,
     query_user |-> query_user, nsaid |-> nsaid, policy |-> policy]

Na(tok) == Some(Authorization("na", tok))
Bearer(tok) == Some(Authorization("Bearer", tok))

\* Two policies a client asks for, each granting the capabilities the other
\* lacks: the first with an allowlist of friends, the second without.
PolicyA ==
    [announcements |-> FALSE, list_friends |-> TRUE, friend |-> TRUE,
     webservices |-> TRUE, current_user |-> TRUE, friends |-> <<"f1">>]
PolicyB ==
    [announcements |-> TRUE, list_friends_presence |-> TRUE, friend_presence |-> TRUE,
     activeevent |-> TRUE, current_user_presence |-> TRUE]
\* Two policies for presence with allowlists: in the first friends_presence
\* and friends name different friends, the second has friends alone.
PolicyC ==
    [friend |-> TRUE, friend_presence |-> TRUE, list_friends_presence |-> TRUE,
     friends |-> <<"f2">>, friends_presence |-> <<"f1">>]
PolicyD ==
    [friend_presence |-> TRUE, list_friends_presence |-> TRUE, friends |-> <<"f2">>]
\* req.body.policy: absent, or one of the four
BodyPolicies == {Undefined, Some(PolicyA), Some(PolicyB), Some(PolicyC), Some(PolicyD)}

FriendRoutes == {"GET /api/znc/friend/:nsaid", "GET /api/znc/friend/:nsaid/presence"}
GatedTargets ==
    {<<route, "">> : route \in GatedRoutes \ FriendRoutes}
      \cup (FriendRoutes \X {"f1", "f2"})

\* how a request identifies itself: a session token, a proxy token that may
\* have been issued (in the header or in the query string), or one that never
\* was
Credentials ==
    { [authorization |-> Na("tokA"), query_token |-> Undefined],
      [authorization |-> Bearer("p1"), query_token |-> Undefined],
      [authorization |-> Bearer("pX"), query_token |-> Undefined],
      [authorization |-> Undefined, query_token |-> Some("p1")] }

HttpRequests ==
    {Request("POST /api/znc/tokens", Na("tokA"), Undefined, Undefined, "", p) :
        p \in BodyPolicies}
      \cup {Request(t[1], c.authorization, c.query_token, Undefined, t[2], Undefined) :
              t \in GatedTargets, c \in Credentials}
      \cup {Request(route, Bearer(tok), Undefined, Undefined, "", Undefined) :
              route \in TokenRoutes, tok \in {"p1", "pX"}}
      \cup {Request(route, Na("tokA"), Undefined, Undefined, "", Undefined) :
              route \in NsoAuthRoutes \ {"POST /api/znc/tokens"}}
      \cup {Request("GET /api/znc/auth", Undefined, Undefined, Undefined, "", Undefined),
            Request("GET /api/znc/auth", Undefined, Undefined, Some("u1"), "", Undefined),
            Request("GET /api/znc/friends", Undefined, Undefined, Some("u1"), "", Undefined)}

\* the exchange of the one session token the requests carry
HttpExchangeAnswers == {[accessToken |-> "at2", expiresIn |-> 3600, remote |-> Undefined]}
HttpExchangeErrors == {"UpstreamUnavailable"}

\* the server started with or without --no-require-token
InitHttp ==
    /\ stores = [d \in DataPaths |-> <<>>]
    /\ now = 0
    /\ call = [c \in Calls |-> Fresh]
    /\ calls = 0
    /\ argv \in {DefaultArgv, [DefaultArgv EXCEPT !.requireToken = FALSE]}
    /\ req = [r \in Reqs |-> NoRequest]
    /\ cache = NoCache
    /\ uuids = 0
    /\ requests = 0
    /\ stream = NoStream
    /\ ipc = NoIpc

NextHttp ==
    \/ \E request \in HttpRequests : ReceiveNext(request)
    \/ \E r \in Reqs : AuthTokenDone(r)
    \/ \E r \in Reqs : LocalAuthDone(r)
    \/ \E r \in Reqs : NsoAuthNaTokenDone(r)
    \/ \E r \in Reqs : GetItemDone(r)
    \/ \E r \in Reqs, answer \in HttpExchangeAnswers : ExchangeOk(r, answer)
    \/ \E r \in Reqs, err \in HttpExchangeErrors : ExchangeFail(r, err)
    \/ \E r \in Reqs : SetItemNso(r)
    \/ \E r \in Reqs : SetItemUserMiss(r)
    \/ \E r \in Reqs : SetItemUserHit(r)
    \/ \E r \in Reqs : NsoAuthGetTokenDone(r)
    \/ \E r \in Reqs : NsoAuthGetTokenThrown(r)
    \/ \E r \in Reqs : NsoAuthSetIdsDone(r)
    \/ \E r \in Reqs : RemoveItemDone(r)
    \/ \E r \in Reqs : DeleteIdsDone(r)
    \/ \E r \in Reqs : DeleteIdsSetDone(r)
    \/ \E r \in Reqs : TokensGetIdsDone(r)
    \/ \E r \in Reqs : TokensGetPoliciesDone(r)
    \/ \E r \in Reqs : BodyParserDone(r)
    \/ \E r \in Reqs : TokensPostPolicyDone(r)
    \/ \E r \in Reqs : TokensPostIdsDone(r)
    \/ \E r \in Reqs : TokensPostIdsSetDone(r)
    \/ \E r \in Reqs, friends \in FriendLists : GetFriendListOk(r, friends)
    \/ \E r \in Reqs : GetWebServicesOk(r)
    \/ \E r \in Reqs : GetActiveEventOk(r)
    \/ \E r \in Reqs : GetCurrentUserOk(r)
    \/ \E r \in Reqs : GetAnnouncementsOk(r, UpstreamResult("getAnnouncements"))
    \/ \E r \in Reqs : GetWebServiceTokenOk(r)
    \/ \E r \in Reqs, err \in UpstreamErrors : UpstreamFail(r, err)

SpecHttp == InitHttp /\ [][NextHttp]_vars

\* ------------------------------------------------- overlapping requests
\* Requests of one user that are in flight at the same time: tokens are
\* issued and revoked while requests that use them are served.
OverlapRequests ==
    {Request("POST /api/znc/tokens", Na("tokA"), Undefined, Undefined, "", Some(PolicyA)),
     Request("DELETE /api/znc/token", Bearer("p1"), Undefined, Undefined, "", Undefined),
     Request("GET /api/znc/token", Bearer("p1"), Undefined, Undefined, "", Undefined),
     Request("GET /api/znc/friends", Bearer("p1"), Undefined, Undefined, "", Undefined)}

NextOverlap ==
    \/ \E r \in Reqs, request \in OverlapRequests : Receive(r, request)
    \/ \E r \in Reqs : AuthTokenDone(r)
    \/ \E r \in Reqs : NsoAuthNaTokenDone(r)
    \/ \E r \in Reqs : GetItemDone(r)
    \/ \E r \in Reqs, answer \in HttpExchangeAnswers : ExchangeOk(r, answer)
    \/ \E r \in Reqs, err \in HttpExchangeErrors : ExchangeFail(r, err)
    \/ \E r \in Reqs : SetItemNso(r)
    \/ \E r \in Reqs : SetItemUserMiss(r)
    \/ \E r \in Reqs : SetItemUserHit(r)
    \/ \E r \in Reqs : NsoAuthGetTokenDone(r)
    \/ \E r \in Reqs : NsoAuthGetTokenThrown(r)
    \/ \E r \in Reqs : NsoAuthSetIdsDone(r)
    \/ \E r \in Reqs : RemoveItemDone(r)
    \/ \E r \in Reqs : DeleteIdsDone(r)
    \/ \E r \in Reqs : DeleteIdsSetDone(r)
    \/ \E r \in Reqs : BodyParserDone(r)
    \/ \E r \in Reqs : TokensPostPolicyDone(r)
    \/ \E r \in Reqs : TokensPostIdsDone(r)
    \/ \E r \in Reqs : TokensPostIdsSetDone(r)
    \/ \E r \in Reqs, friends \in FriendLists : GetFriendListOk(r, friends)
    \/ \E r \in Reqs : GetWebServicesOk(r)
    \/ \E r \in Reqs : GetActiveEventOk(r)
    \/ \E r \in Reqs, err \in UpstreamErrors : UpstreamFail(r, err)

SpecOverlap == Init /\ [][NextOverlap]_vars

\* ------------------------------------------------- the in-memory caches
\* Two users ask for cached data while the clock runs and their requests
\* overlap.  Both signed in before the server was started (their tokens are
\* in the store, as getToken and nsoAuth left them, and stay valid), with
\* --update-interval 2.
SignedIn(s, tok) ==
    LET data == ExchangeData(tok, CHOOSE answer \in HttpExchangeAnswers : TRUE)
        ids == OrEmpty(getItem(s, NintendoAccountIdsKey))
    IN setItem(setItem(setItem(s, NsoTokenKey(tok), NewSavedToken(data, 0)),
                       NintendoAccountTokenKey(data.user.id), tok),
               NintendoAccountIdsKey, SetAdd(ids, data.user.id))

InitCache ==
    /\ stores = [d \in DataPaths |->
                   IF d = "data" THEN SignedIn(SignedIn(<<>>, "tokA"), "tokB") ELSE <<>>]
    /\ now = 0
    /\ call = [c \in Calls |-> Fresh]
    /\ calls = 0
    /\ argv = [DefaultArgv EXCEPT !.updateInterval = 2]
    /\ req = [r \in Reqs |-> NoRequest]
    /\ cache = NoCache
    /\ uuids = 0
    /\ requests = 0
    /\ stream = NoStream
    /\ ipc = NoIpc

CacheRequests ==
    {Request(route, Na(tok), Undefined, Undefined, "", Undefined) :
        route \in {"GET /api/znc/friends", "GET /api/znc/user", "GET /api/znc/announcements"},
        tok \in {"tokA", "tokB"}}

\* what getAnnouncements answers: the list, before and after a new entry
AnnouncementLists ==
    { << [announcementId |-> "a1"] >>,
      << [announcementId |-> "a2"], [announcementId |-> "a1"] >> }

NextCache ==
    \/ \E r \in Reqs, request \in CacheRequests : Receive(r, request)
    \/ \E r \in Reqs : GetItemDone(r)
    \/ \E r \in Reqs : SetItemUserHit(r)
    \/ \E r \in Reqs : NsoAuthGetTokenDone(r)
    \/ \E r \in Reqs : NsoAuthSetIdsDone(r)
    \/ \E r \in Reqs, friends \in FriendLists : GetFriendListOk(r, friends)
    \/ \E r \in Reqs : GetWebServicesOk(r)
    \/ \E r \in Reqs : GetActiveEventOk(r)
    \/ \E r \in Reqs : GetCurrentUserOk(r)
    \/ \E r \in Reqs, announcements \in AnnouncementLists : GetAnnouncementsOk(r, announcements)
    \/ \E r \in Reqs, err \in UpstreamErrors : UpstreamFail(r, err)
    \/ Tick

SpecCache == InitCache /\ [][NextCache]_vars

\* ------------------------------------------------- the presence stream
\* JSON.stringify of an object: a key whose value is undefined is left out
JSON_stringify(d) ==
    [k \in {f \in DOMAIN d : IsDefined(d[f])} |-> Value(d[k])]

ZncPresenceEventStreamEvent ==
    [FRIEND_ONLINE |-> "0", FRIEND_OFFLINE |-> "1",
     FRIEND_TITLE_CHANGE |-> "2", FRIEND_TITLE_STATECHANGE |-> "3"]

\* (variant: the frame is not closed by a blank line)
sendEventOpen(written, event, data) ==
    written
      \o (IF event # "" THEN << [event |-> event] >> ELSE <<>>)
      \o [i \in 1..Len(data) |-> [data |-> JSON_stringify(data[i])]]

\* sendEvent(event, ...data).  written is what res.write was given so far:
\* [event |-> e] is 'event: ' + e + '\n', [data |-> j] is
\* 'data: ' + j + '\n' and [blank |-> "\n"] is '\n'
sendEvent(written, event, data) ==
    written
      \o (IF event # "" THEN << [event |-> event] >> ELSE <<>>)
      \o [i \in 1..Len(data) |-> [data |-> JSON_stringify(data[i])]]
      \o << [blank |-> "\n"] >>

\* {id: friend.nsaId, presence: friend.presence, prev: prev?.presence}
EventData(friend, prev) ==
    [id |-> Some(friend.nsaId), presence |-> Some(friend.presence),
     prev |-> IF IsDefined(prev) THEN Some(Value(prev).presence) ELSE Undefined]

\* (variant: the data carries no previous presence)
onFriendOnlineNoPrev(written, friend, prev) ==
    sendEvent(written, ZncPresenceEventStreamEvent.FRIEND_ONLINE, <<EventData(friend, Undefined)>>)
onFriendOnline(written, friend, prev) ==
    sendEvent(written, ZncPresenceEventStreamEvent.FRIEND_ONLINE, <<EventData(friend, prev)>>)
onFriendOffline(written, friend, prev) ==
    sendEvent(written, ZncPresenceEventStreamEvent.FRIEND_OFFLINE, <<EventData(friend, prev)>>)
onFriendPlayingChangeTitle(written, friend, prev) ==
    sendEvent(written, ZncPresenceEventStreamEvent.FRIEND_TITLE_CHANGE, <<EventData(friend, prev)>>)
\* (variant: a title state change is sent with the code of a title change)
onFriendTitleStateChangeAsTitle(written, friend, prev) ==
    sendEvent(written, ZncPresenceEventStreamEvent.FRIEND_TITLE_CHANGE, <<EventData(friend, prev)>>)
onFriendTitleStateChange(written, friend, prev) ==
    sendEvent(written, ZncPresenceEventStreamEvent.FRIEND_TITLE_STATECHANGE, <<EventData(friend, prev)>>)

\* ---- the monitor the stream extends (ZncNotifications)
\* A transition event: its variant, its subject as it is now and as it was.
TransitionEvent(type, friend, prev) == [type |-> type, friend |-> friend, prev |-> prev]

\* the consumer's method for each variant
Dispatch(written, e) ==
    CASE e.type = "FriendOnline" -> onFriendOnline(written, e.friend, e.prev)
      [] e.type = "FriendOffline" -> onFriendOffline(written, e.friend, e.prev)
      [] e.type = "TitleChange" -> onFriendPlayingChangeTitle(written, e.friend, e.prev)
      [] e.type = "TitleStateChange" -> onFriendTitleStateChange(written, e.friend, e.prev)

RECURSIVE DispatchAll(_, _)
DispatchAll(written, events) ==
    IF events = <<>> THEN written
    ELSE DispatchAll(Dispatch(written, Head(events)), Tail(events))

\* the two partitions of the presence states
OnlineLike(presence) == presence.state \in {"ONLINE", "PLAYING"}

\* (variant: a subject that stays online on the same title yields a title
\* state change whether or not the description differs)
TransitionRepeat(prev, friend) ==
    LET was == OnlineLike(prev.presence)
        is == OnlineLike(friend.presence)
    IN IF ~was /\ is THEN <<TransitionEvent("FriendOnline", friend, Some(prev))>>
       ELSE IF was /\ ~is THEN <<TransitionEvent("FriendOffline", friend, Some(prev))>>
       ELSE IF was /\ is /\ prev.presence.game.titleId # friend.presence.game.titleId
         THEN <<TransitionEvent("TitleChange", friend, Some(prev))>>
       ELSE IF was /\ is
         THEN <<TransitionEvent("TitleStateChange", friend, Some(prev))>>
       ELSE <<>>

\* the events of one subject that was prev and is now friend: at most one,
\* online/offline before title before title state
Transition(prev, friend) ==
    LET was == OnlineLike(prev.presence)
        is == OnlineLike(friend.presence)
    IN IF ~was /\ is THEN <<TransitionEvent("FriendOnline", friend, Some(prev))>>
       ELSE IF was /\ ~is THEN <<TransitionEvent("FriendOffline", friend, Some(prev))>>
       ELSE IF was /\ is /\ prev.presence.game.titleId # friend.presence.game.titleId
         THEN <<TransitionEvent("TitleChange", friend, Some(prev))>>
       ELSE IF /\ prev.presence.game.titleId = friend.presence.game.titleId
               /\ prev.presence.game.sysDescription # friend.presence.game.sysDescription
         THEN <<TransitionEvent("TitleStateChange", friend, Some(prev))>>
       ELSE <<>>

\* (variant: the events stand in the reverse of the order of current.friends)
FriendEventsReversed(previous, current) ==
    LET EventsOf(friend) ==
            IF IsDefined(previous)
              THEN LET known == FindFriend(Value(previous).friends, friend.nsaId)
                   IN IF IsDefined(known) THEN Transition(Value(known), friend) ELSE <<>>
              ELSE <<>>
        Upto[n \in 0..Len(current.friends)] ==
            IF n = 0 THEN <<>> ELSE EventsOf(current.friends[n]) \o Upto[n - 1]
    IN Upto[Len(current.friends)]

\* (variant: without a previous snapshot every friend who is online comes
\* online)
FriendEventsFlash(previous, current) ==
    LET EventsOf(friend) ==
            IF IsDefined(previous)
              THEN LET known == FindFriend(Value(previous).friends, friend.nsaId)
                   IN IF IsDefined(known) THEN Transition(Value(known), friend) ELSE <<>>
              ELSE IF OnlineLike(friend.presence)
                     THEN <<TransitionEvent("FriendOnline", friend, Undefined)>>
                     ELSE <<>>
        Upto[n \in 0..Len(current.friends)] ==
            IF n = 0 THEN <<>> ELSE Upto[n - 1] \o EventsOf(current.friends[n])
    IN Upto[Len(current.friends)]

\* the events of the friends, in the order of current.friends; a friend
\* the previous snapshot does not have yields none, and so does every friend
\* when there is no previous snapshot
FriendEvents(previous, current) ==
    LET EventsOf(friend) ==
            IF IsDefined(previous)
              THEN LET known == FindFriend(Value(previous).friends, friend.nsaId)
                   IN IF IsDefined(known) THEN Transition(Value(known), friend) ELSE <<>>
              ELSE <<>>
        Upto[n \in 0..Len(current.friends)] ==
            IF n = 0 THEN <<>> ELSE Upto[n - 1] \o EventsOf(current.friends[n])
    IN Upto[Len(current.friends)]

\* the events of the authenticated user, diffed the same way
UserEvents(previous, current) ==
    IF IsDefined(previous) THEN Transition(Value(previous).user, current.user) ELSE <<>>

\* diff(previous, current): the event sequences it may yield; where the
\* user's own event stands among the friends' is not laid down
diff(previous, current) ==
    {UserEvents(previous, current) \o FriendEvents(previous, current),
     FriendEvents(previous, current) \o UserEvents(previous, current)}

\* ---- what a fetch returns is an input
StreamPresences ==
    {Presence("OFFLINE", "", ""), Presence("INACTIVE", "", ""),
     Presence("ONLINE", "game1", ""), Presence("PLAYING", "game1", "lobby"),
     Presence("PLAYING", "game2", "")}

\* snapshots: the user, whose nsaId is n1, and the friends in upstream order
Snapshots ==
    {[user |-> Friend("n1", Presence("ONLINE", "game1", "")),
      friends |-> <<Friend("f1", p)>>] : p \in StreamPresences}
      \cup {[user |-> Friend("n1", Presence("ONLINE", "game1", "")),
             friends |-> <<Friend("f1", p), Friend("f2", Presence("ONLINE", "game1", ""))>>] :
              p \in StreamPresences}
      \cup {[user |-> Friend("n1", Presence("OFFLINE", "", "")),
             friends |-> <<Friend("f2", Presence("OFFLINE", "", "")), Friend("f1", p)>>] :
              p \in StreamPresences}
      \cup {[user |-> Friend("n1", p), friends |-> <<>>] :
              p \in {Presence("OFFLINE", "", ""), Presence("PLAYING", "game2", "")}}

\* ---- actions
\* GET /api/znc/presence/events, past its middleware: the stream is made and
\* init() called
OpenStream ==
    /\ stream.pc = "closed"
    /\ stream' = [stream EXCEPT !.pc = "init"]
    /\ UNCHANGED <<stores, now, call, calls, argv, req, cache, uuids, requests, ipc>>

\* (variant: the snapshot first held is kept)
UpdateKeepBaseline(current, events) ==
    [stream EXCEPT !.written = DispatchAll(@, events),
                   !.before = stream.data,
                   !.data = IF IsDefined(stream.data) THEN stream.data ELSE Some(current),
                   !.fetched = Some(current), !.events = events]

\* the monitor takes in the snapshot a fetch returned: the events of the
\* diff against the snapshot it holds are dispatched in order, and the new
\* snapshot is the one it holds
Update(current, events) ==
    [stream EXCEPT !.written = DispatchAll(@, events),
                   !.before = stream.data, !.data = Some(current),
                   !.fetched = Some(current), !.events = events]

\* the monitor is Polling and sleeps until the interval after time t is over
Sleep(st, av, t) ==
    [st EXCEPT !.pc = "polling", !.began = t, !.wake = t + UpdateInterval(av)]

\* init(): the first fetch returned
InitDone(current) ==
    /\ stream.pc = "init"
    /\ \E events \in diff(stream.data, current) :
          stream' = Sleep(Update(current, events), argv, now)
    /\ UNCHANGED <<stores, now, call, calls, argv, req, cache, uuids, requests, ipc>>

\* loop(): the sleep is over and the fetch begins
LoopWake ==
    /\ stream.pc = "polling"
    /\ ~IsDefined(stream.stop) /\ ~stream.skip
    /\ stream.loops < MaxLoops
    /\ now <= stream.wake
    /\ now' = stream.wake
    /\ stream' = [stream EXCEPT !.pc = "fetching", !.slept = stream.wake - stream.began]
    /\ UNCHANGED <<stores, call, calls, argv, req, cache, uuids, requests, ipc>>

\* loop(): a skip was asked for, the sleep ends at once and the fetch begins
LoopSkip ==
    /\ stream.pc = "polling"
    /\ ~IsDefined(stream.stop) /\ stream.skip
    /\ stream.loops < MaxLoops
    /\ stream' = [stream EXCEPT !.pc = "fetching", !.skip = FALSE,
                                !.slept = now - stream.began]
    /\ UNCHANGED <<stores, now, call, calls, argv, req, cache, uuids, requests, ipc>>

\* loop(): the fetch returned; while (true) await i.loop() goes on
LoopDone(current) ==
    /\ stream.pc = "fetching"
    /\ \E events \in diff(stream.data, current) :
          stream' = Sleep([Update(current, events) EXCEPT !.loops = @ + 1], argv, now)
    /\ UNCHANGED <<stores, now, call, calls, argv, req, cache, uuids, requests, ipc>>

\* (variant: the failure of a fetch ends the loop)
LoopFailedEnds(err) ==
    /\ stream.pc = "fetching"
    /\ stream' = [stream EXCEPT !.pc = "stopped", !.errors = @ + 1, !.loops = @ + 1,
                                !.before = stream.data, !.fetched = Undefined,
                                !.events = <<>>]
    /\ UNCHANGED <<stores, now, call, calls, argv, req, cache, uuids, requests, ipc>>

\* loop(): the fetch failed; the error is reported, the snapshot kept and
\* the next fetch due an interval later
LoopFailed(err) ==
    /\ stream.pc = "fetching"
    /\ stream' = Sleep([stream EXCEPT !.errors = @ + 1, !.loops = @ + 1,
                                      !.before = stream.data, !.fetched = Undefined,
                                      !.events = <<>>], argv, now)
    /\ UNCHANGED <<stores, now, call, calls, argv, req, cache, uuids, requests, ipc>>

\* (variant: a stop request ends the monitor where it stands)
StopNow ==
    /\ stream.pc \in {"init", "polling", "fetching"}
    /\ ~IsDefined(stream.stop)
    /\ stream' = [stream EXCEPT !.stop = Some(stream.pc), !.pc = "stopped"]
    /\ UNCHANGED <<stores, now, call, calls, argv, req, cache, uuids, requests, ipc>>

\* a stop request: a flag the loop looks at between iterations
Stop ==
    /\ stream.pc \in {"init", "polling", "fetching"}
    /\ ~IsDefined(stream.stop)
    /\ stream' = [stream EXCEPT !.stop = Some(stream.pc)]
    /\ UNCHANGED <<stores, now, call, calls, argv, req, cache, uuids, requests, ipc>>

\* between two iterations the loop finds the stop flag raised
Stopped ==
    /\ stream.pc = "polling"
    /\ IsDefined(stream.stop)
    /\ stream' = [stream EXCEPT !.pc = "stopped"]
    /\ UNCHANGED <<stores, now, call, calls, argv, req, cache, uuids, requests, ipc>>

\* (variant: the request shortens every sleep from now on)
SkipIntervalForGood ==
    /\ stream.pc = "polling"
    /\ ~stream.skip
    /\ stream' = [stream EXCEPT !.skip = TRUE]
    /\ argv' = [argv EXCEPT !.updateInterval = 0]
    /\ UNCHANGED <<stores, now, call, calls, req, cache, uuids, requests, ipc>>

\* the 'Update now' menu item, enabled when there is a monitor:
\* monitor.skipIntervalInCurrentLoop(true), the sleep in progress is to end
SkipInterval ==
    /\ stream.pc = "polling"
    /\ ~stream.skip
    /\ stream' = [stream EXCEPT !.skip = TRUE]
    /\ UNCHANGED <<stores, now, call, calls, argv, req, cache, uuids, requests, ipc>>

NextNotify ==
    \/ OpenStream
    \/ \E current \in Snapshots : InitDone(current)
    \/ LoopWake
    \/ \E current \in Snapshots : LoopDone(current)
    \/ \E err \in UpstreamErrors : LoopFailed(err)

SpecNotify == Init /\ [][NextNotify]_vars

\* ------------------------------------------------- the app's monitor
\* The same loop as the app runs it for a user, where the menu can ask it to
\* update now and the app can stop it; three snapshots, between which one
\* friend or both change.
MonitorSnapshots ==
    {[user |-> Friend("n1", Presence("ONLINE", "game1", "")),
      friends |-> <<Friend("f1", p[1]), Friend("f2", p[2])>>] :
        p \in {<<Presence("ONLINE", "game1", ""), Presence("ONLINE", "game1", "")>>,
               <<Presence("OFFLINE", "", ""), Presence("PLAYING", "game2", "")>>,
               <<Presence("OFFLINE", "", ""), Presence("ONLINE", "game1", "")>>}}

NextMonitor ==
    \/ OpenStream
    \/ \E current \in MonitorSnapshots : InitDone(current)
    \/ LoopWake
    \/ LoopSkip
    \/ \E current \in MonitorSnapshots : LoopDone(current)
    \/ \E err \in UpstreamErrors : LoopFailed(err)
    \/ SkipInterval
    \/ Stop
    \/ Stopped
    \/ Tick

SpecMonitor == Init /\ [][NextMonitor]_vars

\* ------------------------------------------------- the app's IPC
\* ipcMain.handle('nxapi:coral:openwebservice', ...): users.get(token), then
\* openWebService(...), with a catch on the latter alone.
\* The classes an error is an instance of.
InstanceOf(err, class) == err = class

\* (variant: every failure of openWebService gives null)
OpenWebServiceCatchAll(st, err) ==
    [st EXCEPT !.pc = "done", !.error = Some(err),
               !.result = Some([settled |-> "resolved", value |-> "null"])]

\* .catch(err => err instanceof WebServiceValidationError ||
\*     err instanceof MembershipRequiredError ?
\*         handleOpenWebServiceError(err, webservice, qs, ...) : null)
OpenWebServiceCatch(st, err) ==
    IF InstanceOf(err, "WebServiceValidationError") \/ InstanceOf(err, "MembershipRequiredError")
      THEN [st EXCEPT !.pc = "done", !.error = Some(err),
                      !.handled = Append(@, [err |-> err, webservice |-> st.webservice,
                                             qs |-> st.qs]),
                      !.result = Some([settled |-> "resolved",
                                       value |-> "handleOpenWebServiceError"])]
      ELSE [st EXCEPT !.pc = "done", !.error = Some(err),
                      !.result = Some([settled |-> "resolved", value |-> "null"])]

\* what openWebService and users.get throw
WebServiceErrors ==
    {"WebServiceValidationError", "MembershipRequiredError", "ErrorResponse", "Error"}

InvokeOpenWebService(webservice, qs) ==
    /\ ipc.pc \in {"idle", "done"}
    /\ ipc.invokes < MaxInvokes
    /\ ipc' = [ipc EXCEPT !.pc = "usersGet", !.webservice = webservice, !.qs = qs,
                          !.result = Undefined, !.error = Undefined, !.invokes = @ + 1]
    /\ UNCHANGED <<stores, now, call, calls, argv, req, cache, uuids, requests, stream>>

\* store.users.get(token) resolved: openWebService is called
UsersGetOk ==
    /\ ipc.pc = "usersGet"
    /\ ipc' = [ipc EXCEPT !.pc = "openWebService"]
    /\ UNCHANGED <<stores, now, call, calls, argv, req, cache, uuids, requests, stream>>

\* store.users.get(token) rejected: nothing catches it
UsersGetFail(err) ==
    /\ ipc.pc = "usersGet"
    /\ ipc' = [ipc EXCEPT !.pc = "done",
                          !.result = Some([settled |-> "rejected", value |-> err])]
    /\ UNCHANGED <<stores, now, call, calls, argv, req, cache, uuids, requests, stream>>

OpenWebServiceOk ==
    /\ ipc.pc = "openWebService"
    /\ ipc' = [ipc EXCEPT !.pc = "done",
                          !.result = Some([settled |-> "resolved", value |-> "undefined"])]
    /\ UNCHANGED <<stores, now, call, calls, argv, req, cache, uuids, requests, stream>>

OpenWebServiceFail(err) ==
    /\ ipc.pc = "openWebService"
    /\ ipc' = OpenWebServiceCatch(ipc, err)
    /\ UNCHANGED <<stores, now, call, calls, argv, req, cache, uuids, requests, stream>>

NextIpc ==
    \/ \E webservice \in {"ws1", "ws2"}, qs \in {Undefined, Some("a=b")} :
          InvokeOpenWebService(webservice, qs)
    \/ UsersGetOk
    \/ \E err \in WebServiceErrors : UsersGetFail(err)
    \/ OpenWebServiceOk
    \/ \E err \in WebServiceErrors : OpenWebServiceFail(err)

SpecIpc == Init /\ [][NextIpc]_vars

\* ================================================================ claims
Finished == {"idle", "returned", "thrown"}
SavedTokenFields == {"user", "credential", "expires_at"}

\* the step of call c that enters getToken (an unchanged slot re-ran a call
\* that threw the same error before)
Enters(c) == calls' = calls + 1 /\ call'[c] # call[c]
\* the segment of call c that leaves position `from` for position `to`
Moves(c, from, to) == call[c].pc = from /\ call'[c].pc = to

\* One of the four checks on the decoded payload fails at clock t (ms).
FailsACheck(tok, t) ==
    /\ tok # ""
    /\ LET payload == Jwt_decode(tok) IN
       \/ payload.iss # "https://accounts.nintendo.com"
       \/ payload.typ # "session_token"
       \/ payload.aud # "71b963c1b7b6d119"
       \/ payload.exp * 1000 <= t

\* C1: a call entered with a session token that fails one of the four checks
\* (issuer, type, audience, expiry against the clock at entry) throws in its
\* first segment: it has read nothing, written nothing, requested no exchange,
\* the stores are as they were, and the call takes no further step.
C1_InvalidTokenThrowsFirst ==
    [][\A c \in Calls :
         /\ (Enters(c) /\ FailsACheck(call'[c].token, now)) =>
               /\ call'[c].pc = "thrown"
               /\ call'[c].error # ""
               /\ call'[c].reads = 0
               /\ call'[c].exchanges = 0
               /\ call'[c].written = {}
               /\ stores' = stores
         /\ (call[c].pc = "thrown" /\ call'[c] # call[c]) => calls' = calls + 1
      ]_vars

C1_Witness ==
    /\ call[1].pc = "thrown" /\ call[1].token = "tokAud"
    /\ call[1].error = "Invalid Nintendo Account session token audience"
    /\ call[2].pc = "thrown" /\ call[2].token = "tokExp"
    /\ call[2].error = "Nintendo Account session token expired"
    /\ \A c \in Calls : call[c].reads = 0 /\ call[c].exchanges = 0 /\ call[c].written = {}

\* C2: when the storage read of a call finds an entry NsoToken.<token> whose
\* expires_at is greater than the clock, the call takes the stored value as
\* it is, requests no exchange, and returns exactly that value as data; the
\* step that completes the call leaves the NsoToken.<token> entry as it was
\* and the call has written no NsoToken key.
C2_CacheHit ==
    [][\A c \in Calls :
         LET d == call[c].storage
             k == NsoTokenKey(call[c].token)
         IN /\ (/\ call[c].pc = "getItem" /\ call'[c] # call[c]
                /\ k \in DOMAIN stores[d]
                /\ stores[d][k].expires_at > now) =>
                  /\ call'[c].pc = "setItemUserHit"
                  /\ call'[c].existingToken = Some(stores[d][k])
                  /\ call'[c].exchanges = 0
            /\ Moves(c, "setItemUserHit", "returned") =>
                  /\ Value(call'[c].result).data = Value(call[c].existingToken)
                  /\ DOMAIN Value(call'[c].result) = {"nso", "data"}
                  /\ call'[c].exchanges = 0
                  /\ k \notin call'[c].written
                  /\ k \in DOMAIN stores'[d]
                  /\ stores'[d][k] = stores[d][k]
      ]_vars

C2_Witness ==
    \E c \in Calls :
        /\ call[c].pc = "returned"
        /\ call[c].exchanges = 0
        /\ IsDefined(call[c].existingToken)
        /\ Value(call[c].result).data = Value(call[c].existingToken)
        /\ Value(call[c].existingToken).expires_at > now

\* C3: when the storage read of a call finds no entry for the token, or an
\* entry with clock >= expires_at (the instant clock = expires_at included),
\* the call requests an exchange; no call ever makes more than one; and when
\* the exchange succeeds the call stores and returns the credential built
\* from the exchange's answer.
C3_CacheMiss ==
    [][\A c \in Calls :
         LET d == call[c].storage
             k == NsoTokenKey(call[c].token)
         IN /\ (/\ call[c].pc = "getItem" /\ call'[c] # call[c]
                /\ (k \notin DOMAIN stores[d] \/ stores[d][k].expires_at <= now)) =>
                  /\ call'[c].pc = "exchange"
                  /\ call'[c].exchanges = 1
            /\ call'[c].exchanges <= 1
            /\ call'[c].pc \in {"exchange", "setItemNso", "setItemUserMiss"} =>
                  call'[c].exchanges = 1
            /\ Moves(c, "setItemNso", "setItemUserMiss") =>
                  /\ stores'[d][k].user = Value(call[c].data).user
                  /\ stores'[d][k].credential = Value(call[c].data).credential
            /\ Moves(c, "setItemUserMiss", "returned") =>
                  /\ call'[c].exchanges = 1
                  /\ Value(call'[c].result).data = Value(call[c].savedToken)
                  /\ Value(call'[c].result).data.credential = Value(call[c].data).credential
                  /\ IsDefined(call[c].existingToken) =>
                        Value(call'[c].result).data # Value(call[c].existingToken)
      ]_vars

\* the miss at the instant of expiry
C3_Witness ==
    \E c \in Calls :
        /\ call[c].pc = "exchange"
        /\ call[c].exchanges = 1
        /\ IsDefined(call[c].existingToken)
        /\ Value(call[c].existingToken).expires_at = now

\* C4: the credential built when an exchange succeeds at clock T with
\* expiresIn = E has expires_at = T + E * 1000 (T + 3,600,000 for E = 3600),
\* whatever expires_at the answer itself carried, and that is the expires_at
\* the call stores under NsoToken.<token>.
C4_ExpiresAt ==
    [][\A c \in Calls :
         /\ Moves(c, "exchange", "setItemNso") =>
               LET E == Value(call'[c].data).credential.expiresIn
                   saved == Value(call'[c].savedToken)
               IN /\ saved.expires_at = now + E * 1000
                  /\ E = 3600 => saved.expires_at = now + 3600000
         /\ Moves(c, "setItemNso", "setItemUserMiss") =>
               stores'[call[c].storage][NsoTokenKey(call[c].token)].expires_at
                   = Value(call[c].savedToken).expires_at
      ]_vars

C4_Witness ==
    \E c \in Calls :
        /\ call[c].pc = "setItemUserMiss"
        /\ now > 0
        /\ Value(call[c].data).credential.expiresIn = 3600
        /\ stores[call[c].storage][NsoTokenKey(call[c].token)].expires_at = now + 3600000

\* the NsoToken.* keys set in store s for session token tok
NsoEntries(s, tok) == {k \in DOMAIN s : k[1] = "NsoToken" /\ k[2] = tok}

\* C5: a store never holds more than one cached credential for a session
\* token, and the write of a refresh replaces the entry as a whole: after it
\* the entry is exactly the new credential (the answer's user and credential
\* and the new expires_at, nothing of the entry it replaces) and every other
\* key is as it was.
C5_OverwrittenNotMerged ==
    [][\A c \in Calls :
         LET d == call[c].storage
             k == NsoTokenKey(call[c].token)
         IN /\ \A tok \in SessionTokens : Cardinality(NsoEntries(stores'[d], tok)) <= 1
            /\ Moves(c, "setItemNso", "setItemUserMiss") =>
                  /\ stores'[d][k] = [user |-> Value(call[c].data).user,
                                      credential |-> Value(call[c].data).credential,
                                      expires_at |-> Value(call[c].savedToken).expires_at]
                  /\ DOMAIN stores'[d] = DOMAIN stores[d] \cup {k}
                  /\ \A o \in DOMAIN stores[d] \ {k} : stores'[d][o] = stores[d][o]
      ]_vars

\* a refresh has just replaced an entry that held another credential
C5_Witness ==
    \E c \in Calls :
        /\ call[c].pc = "setItemUserMiss"
        /\ IsDefined(call[c].existingToken)
        /\ Value(call[c].existingToken).credential # Value(call[c].data).credential
        /\ stores[call[c].storage][NsoTokenKey(call[c].token)] = Value(call[c].savedToken)

\* C6: in the state in which a call returns, on a hit as on a miss, the store
\* maps NintendoAccountToken.<user id of the returned data> to the call's
\* session token.
C6_ReverseMapping ==
    [][\A c \in Calls :
         (call[c].pc # "returned" /\ call'[c].pc = "returned") =>
             LET d == call[c].storage
                 k == NintendoAccountTokenKey(Value(call'[c].result).data.user.id)
             IN /\ k \in DOMAIN stores'[d]
                /\ stores'[d][k] = call'[c].token
                /\ k \in call'[c].written
      ]_vars

\* a hit has just pointed the user's mapping back at its token, after another
\* token of the same user was cached
C6_Witness ==
    \E c \in Calls :
        /\ call[c].pc = "returned"
        /\ call[c].exchanges = 0
        /\ call[c].token = "tokA"
        /\ NsoTokenKey("tokExp") \in DOMAIN stores[call[c].storage]
        /\ stores[call[c].storage][NintendoAccountTokenKey("u1")] = "tokA"

\* C7: when the exchange of a call fails, the call throws that error in the
\* same step, having made that one exchange and no write; the stores are as
\* they were, and the call takes no further step (no second attempt).  A
\* store changes only by the write of a call that goes on to return.
C7_ExchangeFailure ==
    [][/\ \A c \in Calls :
         /\ (call[c].pc = "exchange" /\ call'[c].pc \notin {"exchange", "setItemNso"}) =>
               /\ call'[c].pc = "thrown"
               /\ call'[c].error \in {"AttestationFailed", "UpstreamUnavailable", "MembershipRequired"}
               /\ call'[c].exchanges = 1
               /\ call'[c].written = {}
               /\ stores' = stores
         /\ call[c].pc = "exchange" => call'[c].exchanges = 1
         /\ (call[c].pc = "thrown" /\ ~Enters(c)) =>
               /\ call'[c] = call[c]
               /\ call[c].written = {}
       /\ stores' # stores =>
             \E o \in Calls : /\ call'[o].written # call[o].written
                              /\ call'[o].pc \in {"setItemUserMiss", "returned"}
      ]_vars

\* a refresh of an expired entry failed: the old entry is still there
C7_Witness ==
    \E c \in Calls :
        /\ call[c].pc = "thrown"
        /\ call[c].error = "MembershipRequired"
        /\ call[c].exchanges = 1
        /\ IsDefined(call[c].existingToken)
        /\ stores[call[c].storage][NsoTokenKey(call[c].token)] = Value(call[c].existingToken)

\* C8: calls are not serialized: a call whose storage read is pending can
\* always take its hit/miss decision, whatever the other calls are doing, and
\* a call that finds a miss while another call's exchange for the same token
\* is in flight requests an exchange of its own.
C8_NotSerialized ==
    \A c \in Calls :
        call[c].pc = "getItem" =>
            /\ ENABLED GetItemDone(c)
            /\ (\E o \in Calls \ {c} :
                   /\ call[o].pc = "exchange"
                   /\ call[o].token = call[c].token
                   /\ call[o].storage = call[c].storage
                   /\ NsoTokenKey(call[c].token) \notin DOMAIN stores[call[c].storage])
               => ENABLED (GetItemDone(c) /\ call'[c].pc = "exchange" /\ call'[c].exchanges = 1)

\* the duplicate exchange: two calls for one token, each with its own
\* exchange in flight
C8_Witness ==
    /\ call[1].pc = "exchange" /\ call[2].pc = "exchange"
    /\ call[1].token = call[2].token
    /\ call[1].storage = call[2].storage
    /\ call[1].exchanges = 1 /\ call[2].exchanges = 1

Observable(cl) ==
    [pc |-> cl.pc, token |-> cl.token, error |-> cl.error,
     existingToken |-> cl.existingToken, data |-> cl.data, savedToken |-> cl.savedToken,
     exchanges |-> cl.exchanges, reads |-> cl.reads, written |-> cl.written,
     returned |-> IF IsDefined(cl.result) THEN Some(Value(cl.result).data) ELSE Undefined,
     shape |-> IF IsDefined(cl.result) THEN DOMAIN Value(cl.result) ELSE {}]

\* C10 (under SpecProxy): the run without a proxy URL and the run with one,
\* given the same token, clock, initial store and exchange answers, are at
\* every step at the same position with the same error, the same hit/miss
\* decision, the same written keys and equal stores, and return {nso, data}
\* with the same data; they differ only in the client object: a ZncApi
\* without a proxy, a ZncProxyApi with one.
C10_ProxyTransparent ==
    /\ stores["data"] = stores["data2"]
    /\ Observable(call[1]) = Observable(call[2])
    /\ \A c \in Calls :
          IsDefined(call[c].result) =>
              /\ DOMAIN Value(call[c].result) = {"nso", "data"}
              /\ Value(call[c].result).nso.api =
                     IF IsDefined(call[c].proxy_url) THEN "ZncProxyApi" ELSE "ZncApi"
    /\ \A c \in Calls : call[c].pc = "returned" /\ call[c].exchanges = 1 =>
          call[c].written = {NsoTokenKey(call[c].token),
                             NintendoAccountTokenKey(Value(call[c].data).user.id)}

\* both runs refreshed from an answer that carried an expires_at of its own
C10_Witness ==
    /\ \A c \in Calls : call[c].pc = "returned" /\ call[c].exchanges = 1
    /\ IsDefined(call[2].proxy_url) /\ ~IsDefined(call[1].proxy_url)
    /\ "expires_at" \in DOMAIN Value(call[2].data)
    /\ NsoTokenKey(call[2].token) \in DOMAIN stores["data2"]

\* ------------------------------------------------------------------ C11
\* the step is one of request r, which is in flight on the given route
StepOf(r, route) ==
    req[r].route = route /\ ~IsFree(r) /\ req'[r] # req[r]

ProxyTokenPrefixes == {"ZncProxyAuthPolicy", "ZncProxyAuthPolicies"}

\* C11: a cached credential is never deleted.  No step of a getToken call or
\* of a proxy request removes a key NsoToken.<token> from the storage, and a
\* step of a DELETE /api/znc/token request removes no key but the token's
\* ZncProxyAuthPolicy.<token> and changes no key outside ZncProxyAuthPolicy.*
\* and ZncProxyAuthPolicies.*.
C11_CredentialNeverDeleted ==
    [][ /\ \A d \in DataPaths : \A k \in DOMAIN stores[d] :
              k[1] = "NsoToken" => k \in DOMAIN stores'[d]
        /\ \A r \in Reqs :
              StepOf(r, "DELETE /api/znc/token") =>
                /\ DOMAIN stores["data"] \ DOMAIN stores'["data"]
                      \subseteq {ZncProxyAuthPolicyKey(PresentedToken(req[r]))}
                /\ \A k \in DOMAIN stores["data"] \cup DOMAIN stores'["data"] :
                      k[1] \notin ProxyTokenPrefixes =>
                        /\ k \in DOMAIN stores["data"] \cap DOMAIN stores'["data"]
                        /\ stores'["data"][k] = stores["data"][k]
      ]_vars

\* a token was revoked (204) while the credential of its user is cached, and
\* another request of that user is in flight
C11_Witness ==
    /\ NsoTokenKey("tokA") \in DOMAIN stores["data"]
    /\ ZncProxyAuthPolicyKey("p1") \notin DOMAIN stores["data"]
    /\ \E r \in Reqs :
          /\ req[r].route = "DELETE /api/znc/token" /\ req[r].status = 204
          /\ \E o \in Reqs \ {r} : ~IsFree(o)

\* ------------------------------------------------------------------ C12
\* the capability each policy-gated endpoint asks for
CapabilityOf(route) ==
    CASE route = "GET /api/znc/announcements" -> "announcements"
      [] route = "GET /api/znc/friends" -> "list_friends"
      [] route = "GET /api/znc/friends/presence" -> "list_friends_presence"
      [] route = "GET /api/znc/friend/:nsaid" -> "friend"
      [] route = "GET /api/znc/friend/:nsaid/presence" -> "friend_presence"
      [] route = "GET /api/znc/webservices" -> "webservices"
      [] route = "GET /api/znc/activeevent" -> "activeevent"
      [] route = "GET /api/znc/user" -> "current_user"
      [] route = "GET /api/znc/user/presence" -> "current_user_presence"

\* the record stored for the proxy token request r presents
StoredAuth(r) == getItem(stores["data"], ZncProxyAuthPolicyKey(PresentedToken(req[r])))

HasError(rq, status, error) ==
    /\ rq.pc = "done" /\ rq.status = status /\ IsDefined(rq.body)
    /\ "error" \in DOMAIN Value(rq.body) /\ Value(rq.body).error = error

\* nothing was looked up, exchanged or fetched for the request
Untouched(rq) == rq.lookups = 0 /\ rq.getTokens = 0 /\ rq.upstream = 0

\* C12: when a request to a policy-gated endpoint presents a proxy token
\* whose stored record has a policy, and the endpoint's capability is not
\* true in that policy, the step that read the record answers 403
\* token_unauthorised: no session token was looked up, no getToken call made
\* and no upstream call issued for the request, and storage, caches and
\* token calls are as they were.
C12_GateBeforeAnyLookup ==
    [][ \A r \in Reqs :
          ( /\ req[r].pc = "authToken" /\ req'[r] # req[r]
            /\ req[r].route \in GatedRoutes
            /\ IsDefined(StoredAuth(r))
            /\ IsDefined(Value(StoredAuth(r)).policy)
            /\ ~Flag(Value(Value(StoredAuth(r)).policy), CapabilityOf(req[r].route)) )
          => /\ HasError(req'[r], 403, "token_unauthorised")
             /\ Untouched(req'[r])
             /\ UNCHANGED <<stores, cache, call, calls>>
      ]_vars

\* a request was refused by the gate of its endpoint
C12_Witness ==
    \E r \in Reqs :
        /\ req[r].route \in GatedRoutes
        /\ IsDefined(req[r].zncAuthPolicy)
        /\ ~Flag(Value(req[r].zncAuthPolicy), CapabilityOf(req[r].route))
        /\ HasError(req[r], 403, "token_unauthorised")
        /\ Untouched(req[r])

\* ------------------------------------------------------------------ C13
\* the request identifies itself by a proxy token and by nothing else
ProxyTokenOnly(rq) ==
    /\ IsBearer(rq) \/ (~IsDefined(rq.authorization) /\ IsDefined(rq.query_token))
    /\ ~IsDefined(rq.query_user)

\* the request was answered with the data of its endpoint
Served(rq) == rq.pc = "done" /\ rq.status = 200

\* C13: the capability policy is always honoured.  A request to a
\* policy-gated endpoint that is authenticated by a proxy token only is
\* served data only if the token's stored record has a policy in which the
\* endpoint's capability is true; a token issued without a policy grants no
\* gated capability.
C13_PolicyHonoured ==
    \A r \in Reqs :
        (req[r].route \in GatedRoutes /\ ProxyTokenOnly(req[r]) /\ Served(req[r]))
        => /\ IsDefined(req[r].zncAuthPolicy)
           /\ Flag(Value(req[r].zncAuthPolicy), CapabilityOf(req[r].route))

\* ------------------------------------------------------------------ C14
\* the request carries a policy with an allowlist `friends`
HasAllowlist(rq) ==
    IsDefined(rq.zncAuthPolicy) /\ Has(Value(rq.zncAuthPolicy), "friends")

Allowlist(rq) == Value(rq.zncAuthPolicy).friends

\* C14: the friend allowlist is enforced.  For a request whose policy has an
\* allowlist `friends`, the answer of GET /api/znc/friends holds exactly the
\* friends of the user's cache entry whose nsaId is in the allowlist, in the
\* order of the cache, and GET /api/znc/friend/:nsaid for an nsaId outside
\* the allowlist is answered 403 token_unauthorised.
C14_FriendAllowlist ==
    [][ \A r \in Reqs :
          /\ ( /\ req'[r].route = "GET /api/znc/friends" /\ HasAllowlist(req'[r])
               /\ req'[r] # req[r] /\ Served(req'[r]) )
             => LET cached == cache'.appdata[UserIdOf(req'[r])].friends
                    kept == {i \in 1..Len(cached) : Includes(Allowlist(req'[r]), cached[i].nsaId)}
                    listed == Value(req'[r].body).friends
                IN /\ Len(listed) = Cardinality(kept)
                   /\ \A i \in kept :
                         listed[Cardinality({j \in kept : j <= i})] = cached[i]
          /\ ( /\ req'[r].route = "GET /api/znc/friend/:nsaid" /\ HasAllowlist(req'[r])
               /\ ~Includes(Allowlist(req'[r]), req'[r].nsaid) )
             => HasError(req'[r], 403, "token_unauthorised")
      ]_vars

\* a list was served that leaves out a cached friend the allowlist does not
\* name
C14_Witness ==
    \E r \in Reqs :
        /\ req[r].route = "GET /api/znc/friends" /\ HasAllowlist(req[r]) /\ Served(req[r])
        /\ UserIdOf(req[r]) \in DOMAIN cache.appdata
        /\ Len(Value(req[r].body).friends) >= 1
        /\ Len(Value(req[r].body).friends) < Len(cache.appdata[UserIdOf(req[r])].friends)

\* ------------------------------------------------------------------ C15
\* no record was found for the proxy token the request presented: the token
\* was never issued or has been revoked
UnknownToken(rq) == ProxyTokenOnly(rq) /\ ~IsDefined(rq.zncAuthPolicyToken)

\* the policy of the request lacks the endpoint's capability or the allowlist
\* entry for the friend asked for
PolicyLacks(rq) ==
    IsDefined(rq.zncAuthPolicy) /\ Denied(rq.route, Value(rq.zncAuthPolicy), rq.nsaid)

\* C15: every request to a policy-gated endpoint that is rejected because of
\* its proxy token - the token is unknown or revoked, or its policy lacks
\* the capability or the allowlist entry - is answered with status 403 and a
\* JSON body that has an `error` field.
C15_TokenProblemIs403 ==
    \A r \in Reqs :
        ( /\ req[r].route \in GatedRoutes /\ req[r].pc = "done"
          /\ UnknownToken(req[r]) \/ PolicyLacks(req[r]) )
        => /\ req[r].status = 403
           /\ IsDefined(req[r].body) /\ "error" \in DOMAIN Value(req[r].body)

\* ------------------------------------------------------------------ C16
\* the step in which the handler of request r's route runs: nsoAuth or
\* getAppData has called next() and the request is answered
HandlerRuns(r) ==
    /\ req[r].pc \in {"nsoAuthSetIds", "getActiveEvent", "getCurrentUser"}
    /\ req'[r].pc = "done" /\ req'[r].status # 500

\* C16: on an authorised request GET /api/znc/friend/:nsaid and
\* GET /api/znc/friend/:nsaid/presence answer 404 not_found exactly when the
\* user's cached friend list has no friend of that nsaId; otherwise the
\* answer is a success that carries that friend's record, respectively that
\* friend's presence, and nothing of another friend.
C16_FriendNotFound ==
    [][ \A r \in Reqs :
          (req[r].route \in FriendRoutes /\ HandlerRuns(r)) =>
            LET entry == cache'.appdata[UserIdOf(req'[r])]
                found == {i \in 1..Len(entry.friends) : entry.friends[i].nsaId = req[r].nsaid}
            IN IF found = {}
                 THEN HasError(req'[r], 404, "not_found")
                 ELSE /\ Served(req'[r])
                      /\ \E i \in found :
                            Value(req'[r].body) =
                              IF req[r].route = "GET /api/znc/friend/:nsaid"
                                THEN [friend |-> entry.friends[i], updated |-> entry.updated]
                                ELSE entry.friends[i].presence
      ]_vars

\* a request that its policy lets through asks for someone who is not among
\* the cached friends, and is answered 404
C16_Witness ==
    \E r \in Reqs :
        /\ req[r].route \in FriendRoutes /\ IsDefined(req[r].zncAuthPolicy)
        /\ HasError(req[r], 404, "not_found")
        /\ cache.appdata[UserIdOf(req[r])].friends # <<>>
        /\ \A i \in 1..Len(cache.appdata[UserIdOf(req[r])].friends) :
              cache.appdata[UserIdOf(req[r])].friends[i].nsaId # req[r].nsaid

\* ------------------------------------------------------------------ C18
\* the names a proxy token can have: the ones uuidgen() makes, and one it
\* never makes
TokenNames == {ProxyTokenName(n) : n \in 1..MaxRequests} \cup {"pX"}
\* the stored record of token t, and whether user u's index lists it
RecordOf(s, t) == getItem(s, ZncProxyAuthPolicyKey(t))
Indexed(s, u, t) == Includes(OrEmpty(getItem(s, ZncProxyAuthPoliciesKey(u))), t)
\* the users a token index is kept for
TokenUsers == {Jwt_decode(tok).sub : tok \in SessionTokens \ {""}}

\* POST /api/znc/tokens with policy P by U answers a new token t, which from
\* then on has the record (U, P) and is in U's index
C18_Issue(r) ==
    (req[r].pc = "tokensPostIdsSet" /\ req'[r].pc = "done") =>
        LET b == Value(req'[r].body) IN
        /\ Served(req'[r])
        /\ b.user = UserIdOf(req[r]) /\ b.policy = req[r].policy
        /\ IsDefined(RecordOf(stores'["data"], b.token))
        /\ Value(RecordOf(stores'["data"], b.token)).user = b.user
        /\ Value(RecordOf(stores'["data"], b.token)).policy = b.policy
        /\ Indexed(stores'["data"], b.user, b.token)
        /\ ~Indexed(stores["data"], b.user, b.token)

\* GET /api/znc/token with t answers the policy of t's record, and 403
\* no_policy when t has no record
C18_Read(r) ==
    (req[r].route = "GET /api/znc/token" /\ req[r].pc = "authToken" /\ req'[r].pc = "done") =>
        LET rec == RecordOf(stores["data"], PresentedToken(req[r])) IN
        IF IsDefined(rec)
          THEN Served(req'[r]) /\ req'[r].body = Value(rec).policy
          ELSE HasError(req'[r], 403, "no_policy")

\* GET /api/znc/tokens by U lists exactly the tokens of U's index that have
\* a record, each with the user and the policy of its record
C18_List(r) ==
    (req[r].pc = "tokensGetPolicies" /\ req'[r].pc = "done") =>
        LET listed == Value(req'[r].body).tokens IN
        /\ Served(req'[r])
        /\ \A t \in TokenNames :
              (\E i \in 1..Len(listed) : listed[i].token = t)
                <=> (Indexed(stores["data"], UserIdOf(req[r]), t) /\ IsDefined(RecordOf(stores["data"], t)))
        /\ \A i \in 1..Len(listed) :
              /\ listed[i].user = Value(RecordOf(stores["data"], listed[i].token)).user
              /\ listed[i].policy = Value(RecordOf(stores["data"], listed[i].token)).policy
              /\ \A j \in 1..Len(listed) : listed[j].token = listed[i].token => j = i

\* DELETE /api/znc/token with t answers 204, and then t has no record and
\* is in no index
C18_Revoke(r) ==
    (req[r].pc = "deleteIdsSet" /\ req'[r].pc = "done") =>
        /\ req'[r].status = 204
        /\ ~IsDefined(RecordOf(stores'["data"], Value(req[r].zncAuthPolicyToken)))
        /\ \A u \in TokenUsers : ~Indexed(stores'["data"], u, Value(req[r].zncAuthPolicyToken))

\* a token's record and its place in an index change in no other way: the
\* record is made by the POST that answers the token and removed by a
\* DELETE with that token, and so is its entry in the index
C18_Kept(t) ==
    /\ RecordOf(stores'["data"], t) # RecordOf(stores["data"], t) =>
          \E r \in Reqs :
              \/ req[r].pc = "tokensPostPolicy" /\ Value(req[r].local).token = t
                   /\ ~IsDefined(RecordOf(stores["data"], t))
              \/ req[r].pc = "removeItem" /\ Value(req[r].zncAuthPolicyToken) = t
    /\ \A u \in TokenUsers :
          Indexed(stores'["data"], u, t) # Indexed(stores["data"], u, t) =>
            \E r \in Reqs :
                \/ req[r].pc = "tokensPostIdsSet" /\ Value(req[r].local).token = t
                \/ req[r].pc = "deleteIdsSet" /\ Value(req[r].zncAuthPolicyToken) = t

\* C18: issuance and revocation of proxy tokens round-trip when requests
\* are sequential.  After POST /api/znc/tokens with policy P by user U
\* answers token t, GET /api/znc/token with t answers P and
\* GET /api/znc/tokens by U lists t with user U and policy P; after
\* DELETE /api/znc/token with t answers 204, GET /api/znc/token with t
\* answers 403 no_policy, GET /api/znc/tokens no longer lists t, and the
\* other tokens of U are as they were.
C18_TokenRoundTrip ==
    [][ /\ \A r \in Reqs : C18_Issue(r) /\ C18_Read(r) /\ C18_List(r) /\ C18_Revoke(r)
        /\ \A t \in TokenNames : C18_Kept(t)
      ]_vars

\* two tokens were issued and the first revoked: the DELETE is answered 204,
\* the first token is gone and the second is as it was issued
C18_Witness ==
    \E r \in Reqs :
        /\ req[r].route = "DELETE /api/znc/token" /\ req[r].pc = "done" /\ req[r].status = 204
        /\ uuids = 2
        /\ ~IsDefined(RecordOf(stores["data"], "p1")) /\ ~Indexed(stores["data"], "u1", "p1")
        /\ IsDefined(RecordOf(stores["data"], "p2")) /\ Indexed(stores["data"], "u1", "p2")

\* ------------------------------------------------------------------ C17
\* the code of each variant of transition event
CodeOf(type) ==
    CASE type = "FriendOnline" -> "0" [] type = "FriendOffline" -> "1"
      [] type = "TitleChange" -> "2" [] type = "TitleStateChange" -> "3"

\* the frame of one event: an event line with the code, one data line with
\* the subject's nsaId, its presence and its previous presence, a blank line
FrameOf(e) ==
    << [event |-> CodeOf(e.type)],
       [data |-> [id |-> e.friend.nsaId, presence |-> e.friend.presence,
                  prev |-> Value(e.prev).presence]],
       [blank |-> "\n"] >>

RECURSIVE FramesOf(_)
FramesOf(events) ==
    IF events = <<>> THEN <<>> ELSE FrameOf(Head(events)) \o FramesOf(Tail(events))

\* C17: on the presence event stream each transition event the notification
\* loop dispatches is written as exactly one frame, an event line, one data
\* line and a blank line; the event code is "0" for FriendOnline, "1" for
\* FriendOffline, "2" for TitleChange and "3" for TitleStateChange; the data
\* carries the subject's nsaId, its new presence and its previous presence;
\* and the frames are written in the order the events are dispatched.
C17_OneFramePerEvent ==
    [][ (stream.pc \in {"init", "fetching"} /\ stream' # stream) =>
            stream'.written = stream.written \o FramesOf(stream'.events)
      ]_vars

\* an iteration dispatched the events of two subjects, and the stream holds
\* frames
C17_Witness ==
    /\ Len(stream.events) >= 2
    /\ stream.events[1].type # stream.events[2].type
    /\ Len(stream.written) >= 6

\* ------------------------------------------------------------------ C19
\* C19: the first observation only establishes a baseline.  diff(null, S)
\* yields the empty event sequence for every snapshot S, and init()
\* dispatches no transition event whatever its fetch returns: it writes
\* nothing on the stream and leaves the monitor holding the fetched snapshot.
C19_BaselineOnly ==
    [][ /\ \A S \in Snapshots : diff(Undefined, S) = {<<>>}
        /\ (stream.pc = "init" /\ stream'.pc = "polling") =>
              /\ stream'.events = <<>>
              /\ stream'.written = stream.written
              /\ IsDefined(stream'.data)
      ]_vars

\* init() has taken in a snapshot in which the user and a friend are
\* online, and nothing was written
C19_Witness ==
    /\ stream.pc = "polling" /\ stream.loops = 0
    /\ IsDefined(stream.data)
    /\ OnlineLike(Value(stream.data).user.presence)
    /\ \E i \in 1..Len(Value(stream.data).friends) :
          OnlineLike(Value(stream.data).friends[i].presence)
    /\ stream.written = <<>>

\* ------------------------------------------------------------------ C20
\* C20: diff(S, S) yields the empty event sequence for every snapshot S, so
\* an iteration of the loop whose fetch returns the contents of the snapshot
\* the monitor holds dispatches no event.
C20_SameSnapshotNoEvent ==
    [][ /\ \A S \in Snapshots : diff(Some(S), S) = {<<>>}
        /\ ( /\ stream.pc = "fetching" /\ stream'.loops = stream.loops + 1
             /\ stream'.fetched = stream.data ) =>
              /\ stream'.events = <<>>
              /\ stream'.written = stream.written
      ]_vars

\* after an iteration that wrote frames, an iteration fetched the same
\* contents again, with a friend online, and dispatched nothing
C20_Witness ==
    /\ stream.loops = 2
    /\ stream.before = stream.data /\ stream.fetched = stream.data
    /\ \E i \in 1..Len(Value(stream.data).friends) :
          OnlineLike(Value(stream.data).friends[i].presence)
    /\ stream.written # <<>>
    /\ stream.events = <<>>

\* ------------------------------------------------------------------ C21
\* the friends the snapshots know
FriendIds == {"f1", "f2"}
\* a step in which the fetch of an iteration of the loop returns
LoopStep ==
    /\ stream.pc = "fetching" /\ stream'.loops = stream.loops + 1
    /\ IsDefined(stream'.fetched)
\* the events of a batch whose subject is id
EventsFor(events, id) == SelectSeq(events, LAMBDA e : e.friend.nsaId = id)
\* what a step wrote on the stream, and its frames about id: the event and
\* data line of each
WrittenBy == SubSeq(stream'.written, Len(stream.written) + 1, Len(stream'.written))
FramesFor(lines, id) ==
    LET at == {i \in 2..Len(lines) : "data" \in DOMAIN lines[i] /\ lines[i].data.id = id}
    IN {<<lines[i - 1], lines[i]>> : i \in at}

\* C21: for a friend present in both snapshots whose state goes from the
\* offline-like partition (OFFLINE, INACTIVE) to the online-like partition
\* (ONLINE, PLAYING) diff yields exactly one event for that friend, a
\* FriendOnline that carries the friend's identity, the new presence and the
\* previous presence; the other way round it yields exactly one
\* FriendOffline.  On the stream that event is one frame of code "0",
\* respectively "1", with the same three values.
C21_OnlineOffline ==
    [][ LoopStep =>
          \A id \in FriendIds :
              LET was == FindFriend(Value(stream.data).friends, id)
                  is == FindFriend(Value(stream'.data).friends, id)
              IN ( /\ IsDefined(was) /\ IsDefined(is)
                   /\ OnlineLike(Value(was).presence) # OnlineLike(Value(is).presence) )
                 => /\ EventsFor(stream'.events, id) =
                          << [type |-> IF OnlineLike(Value(is).presence)
                                         THEN "FriendOnline" ELSE "FriendOffline",
                              friend |-> Value(is), prev |-> was] >>
                    /\ FramesFor(WrittenBy, id) =
                          { << [event |-> IF OnlineLike(Value(is).presence) THEN "0" ELSE "1"],
                               [data |-> [id |-> id, presence |-> Value(is).presence,
                                          prev |-> Value(was).presence]] >> }
      ]_vars

\* an iteration found friend f1, INACTIVE before, PLAYING now and dispatched
\* its FriendOnline
C21_Witness ==
    /\ stream.loops >= 1
    /\ \E i \in 1..Len(stream.events) :
          /\ stream.events[i].type = "FriendOnline"
          /\ stream.events[i].friend.nsaId = "f1"
          /\ stream.events[i].friend.presence.state = "PLAYING"
          /\ Value(stream.events[i].prev).presence.state = "INACTIVE"

\* ------------------------------------------------------------------ C22
\* C22: for a friend present in both snapshots whose presence partition and
\* active title are the same in both but whose title sub-state differs, diff
\* yields exactly one TitleStateChange for that friend and no FriendOnline,
\* FriendOffline or TitleChange.  On the stream that event is one frame of
\* code "3".
C22_TitleStateChange ==
    [][ LoopStep =>
          \A id \in FriendIds :
              LET was == FindFriend(Value(stream.data).friends, id)
                  is == FindFriend(Value(stream'.data).friends, id)
              IN ( /\ IsDefined(was) /\ IsDefined(is)
                   /\ OnlineLike(Value(was).presence) = OnlineLike(Value(is).presence)
                   /\ Value(was).presence.game.titleId = Value(is).presence.game.titleId
                   /\ Value(was).presence.game.sysDescription
                        # Value(is).presence.game.sysDescription )
                 => /\ EventsFor(stream'.events, id) =
                          << [type |-> "TitleStateChange", friend |-> Value(is), prev |-> was] >>
                    /\ FramesFor(WrittenBy, id) =
                          { << [event |-> "3"],
                               [data |-> [id |-> id, presence |-> Value(is).presence,
                                          prev |-> Value(was).presence]] >> }
      ]_vars

\* friend f1 went from ONLINE to PLAYING on the same title with a new
\* description, and the iteration dispatched its TitleStateChange
C22_Witness ==
    /\ stream.loops >= 1
    /\ \E i \in 1..Len(stream.events) :
          /\ stream.events[i].type = "TitleStateChange"
          /\ stream.events[i].friend.nsaId = "f1"
          /\ stream.events[i].friend.presence.state = "PLAYING"
          /\ Value(stream.events[i].prev).presence.state = "ONLINE"
          /\ stream.events[i].friend.presence.game.sysDescription = "lobby"

\* ------------------------------------------------------------------ C23
\* the variant precedence picks for a subject that was prev and is now
\* friend, "" when there is none: online/offline, then title, then title state
Precedence(prev, friend) ==
    IF OnlineLike(prev.presence) # OnlineLike(friend.presence)
      THEN IF OnlineLike(friend.presence) THEN "FriendOnline" ELSE "FriendOffline"
    ELSE IF OnlineLike(friend.presence)
            /\ prev.presence.game.titleId # friend.presence.game.titleId
      THEN "TitleChange"
    ELSE IF prev.presence.game.titleId = friend.presence.game.titleId
            /\ prev.presence.game.sysDescription # friend.presence.game.sysDescription
      THEN "TitleStateChange"
    ELSE ""

\* where friend id stands in a list of friends
PlaceOf(friends, id) == CHOOSE i \in 1..Len(friends) : friends[i].nsaId = id

\* C23: for any pair of snapshots diff emits at most one event per friend
\* identity, the one precedence picks (an online/offline transition before a
\* title change before a title-state change); a friend the previous snapshot
\* does not have yields no event; and the friends' events stand in the order
\* of current.friends as upstream returned it.
C23_OnePerFriendInOrder ==
    [][ LoopStep =>
          LET friends == Value(stream'.data).friends
              batch == SelectSeq(stream'.events, LAMBDA e : e.friend.nsaId \in FriendIds)
          IN /\ \A id \in FriendIds :
                  LET was == FindFriend(Value(stream.data).friends, id)
                      is == FindFriend(friends, id)
                      mine == EventsFor(stream'.events, id)
                  IN /\ Len(mine) <= 1
                     /\ (~IsDefined(was) \/ ~IsDefined(is)) => mine = <<>>
                     /\ (IsDefined(was) /\ IsDefined(is)) =>
                          IF Precedence(Value(was), Value(is)) = ""
                            THEN mine = <<>>
                            ELSE Len(mine) = 1
                                 /\ mine[1].type = Precedence(Value(was), Value(is))
             /\ \A i, j \in 1..Len(batch) :
                  i < j => PlaceOf(friends, batch[i].friend.nsaId)
                             < PlaceOf(friends, batch[j].friend.nsaId)
      ]_vars

\* an iteration dispatched the events of two friends, the second friend of
\* the previous snapshot first as the fetched one has it, while a title and
\* its description changed at once
C23_Witness ==
    /\ stream.loops >= 1
    /\ Len(EventsFor(stream.events, "f1")) = 1 /\ Len(EventsFor(stream.events, "f2")) = 1
    /\ Value(stream.before).friends[1].nsaId = "f1"
    /\ Value(stream.data).friends[1].nsaId = "f2"
    /\ EventsFor(stream.events, "f1")[1].type = "TitleChange"
    /\ EventsFor(stream.events, "f1")[1].friend.presence.game.sysDescription
         # Value(EventsFor(stream.events, "f1")[1].prev).presence.game.sysDescription

\* ------------------------------------------------------------------ C24
\* between S1 and S2 exactly friend id changed, from ONLINE to OFFLINE
OnlyWentOffline(S1, S2, id) ==
    /\ S1.user = S2.user /\ Len(S1.friends) = Len(S2.friends)
    /\ \E i \in 1..Len(S1.friends) :
          /\ S1.friends[i].nsaId = id /\ S2.friends[i].nsaId = id
          /\ S1.friends[i].presence.state = "ONLINE"
          /\ S2.friends[i].presence.state = "OFFLINE"
          /\ \A j \in 1..Len(S1.friends) : j # i => S1.friends[j] = S2.friends[j]

\* C24: a loop that holds the baseline S1 and whose next fetch returns S2,
\* in which exactly one friend went from ONLINE to OFFLINE, dispatches
\* exactly one event in that iteration, the FriendOffline of that friend,
\* and then holds S2; every iteration diffs the fetched snapshot against the
\* one the iteration before stored, so the following iteration diffs against
\* S2 and not S1.
C24_LoopReplacesSnapshot ==
    [][ LoopStep =>
          /\ stream'.data = stream'.fetched
          /\ stream'.events \in diff(stream.data, Value(stream'.fetched))
          /\ \A id \in FriendIds :
                OnlyWentOffline(Value(stream.data), Value(stream'.fetched), id) =>
                    /\ Len(stream'.events) = 1
                    /\ stream'.events[1].type = "FriendOffline"
                    /\ stream'.events[1].friend.nsaId = id
                    /\ Len(WrittenBy) = 3 /\ WrittenBy[1] = [event |-> "1"]
      ]_vars

\* friend f1 went offline in the first iteration and the second fetch
\* returned the baseline again: the loop, holding the second snapshot,
\* dispatched its FriendOnline, after the frame of code "1" one of code "0"
C24_Witness ==
    /\ stream.loops = 2
    /\ Len(stream.events) = 1 /\ stream.events[1].type = "FriendOnline"
    /\ stream.events[1].friend.nsaId = "f1"
    /\ OnlyWentOffline(Value(stream.data), Value(stream.before), "f1")
    /\ Len(stream.written) = 6
    /\ stream.written[1] = [event |-> "1"] /\ stream.written[4] = [event |-> "0"]

\* ------------------------------------------------------------------ C25
\* a step in which the fetch of an iteration of the loop fails
FailStep ==
    /\ stream.pc = "fetching" /\ stream'.loops = stream.loops + 1
    /\ ~IsDefined(stream'.fetched)

\* C25: a fetch failure never terminates monitoring.  After an iteration
\* whose fetch fails the loop has reported the error to its consumer, holds
\* the snapshot it held, is Polling and has its next fetch due one interval
\* later; that fetch can be made, so the stream's while (true) loop()
\* driver goes on iterating after an upstream failure.
C25_FailureKeepsPolling ==
    /\ [][ FailStep =>
              /\ stream'.errors = stream.errors + 1
              /\ stream'.data = stream.data
              /\ stream'.written = stream.written
              /\ stream'.pc = "polling"
              /\ stream'.wake = now' + UpdateInterval(argv')
         ]_vars
    /\ []( ( /\ stream.errors > 0 /\ stream.pc = "polling"
             /\ stream.loops < MaxLoops /\ ~IsDefined(stream.stop) /\ ~stream.skip )
           => ENABLED LoopWake )

\* the first fetch of the loop failed, the second returned: its events, of a
\* diff against the baseline that was kept, were dispatched an interval later
C25_Witness ==
    /\ stream.errors = 1 /\ stream.loops = 2 /\ stream.pc = "polling"
    /\ IsDefined(stream.fetched) /\ stream.before # stream.fetched
    /\ stream.events # <<>> /\ Len(stream.written) = 3 * Len(stream.events)
    /\ now = 2 * UpdateInterval(argv)

\* ------------------------------------------------------------------ C26
\* C26: cancellation is cooperative and batch-atomic.  A stop request only
\* raises a flag; raised while an iteration is fetching or dispatching it
\* takes effect after the whole batch of that iteration's diff has been
\* dispatched and the snapshot replaced, so the consumer is never left with
\* a proper prefix of a batch; the monitor becomes Stopped between two
\* iterations only, and once Stopped it fetches and dispatches no more.
C26_CooperativeStop ==
    [][ /\ (~IsDefined(stream.stop) /\ IsDefined(stream'.stop)) =>
              stream' = [stream EXCEPT !.stop = stream'.stop]
        /\ (LoopStep /\ IsDefined(stream.stop)) =>
              /\ stream'.data = stream'.fetched
              /\ stream'.events \in diff(stream.data, Value(stream'.fetched))
              /\ stream'.written = stream.written \o FramesOf(stream'.events)
        /\ (stream.pc # "stopped" /\ stream'.pc = "stopped") =>
              /\ stream.pc = "polling" /\ IsDefined(stream.stop)
              /\ stream' = [stream EXCEPT !.pc = "stopped"]
        /\ stream.pc = "stopped" => stream' = stream
      ]_vars

\* a stop was asked for while a fetch was in flight; the fetch returned, its
\* batch of two events was dispatched whole and the snapshot replaced, and
\* then the monitor stopped
C26_Witness ==
    /\ stream.pc = "stopped" /\ stream.stop = Some("fetching")
    /\ stream.data = stream.fetched /\ IsDefined(stream.fetched)
    /\ Len(stream.events) = 2
    /\ Len(stream.written) >= 6
    /\ SubSeq(stream.written, Len(stream.written) - 5, Len(stream.written))
         = FramesOf(stream.events)

\* ------------------------------------------------------------------ C27
\* C27: a skip-interval request, as the 'Update now' menu item makes it, ends
\* only the sleep in progress.  The request changes neither the configured
\* interval nor when the sleep is due; the next fetch starts without waiting
\* and uses the request up; and every sleep that no request ends lasts the
\* configured interval.
C27_SkipCurrentSleepOnly ==
    [][ /\ argv'.updateInterval = argv.updateInterval
        /\ (~stream.skip /\ stream'.skip) =>
              stream' = [stream EXCEPT !.skip = TRUE]
        /\ (stream.pc = "polling" /\ stream'.pc = "fetching") =>
              IF stream.skip
                THEN now' = now /\ ~stream'.skip
                     /\ stream'.slept = now - stream.began
                ELSE now' = stream.began + UpdateInterval(argv)
                     /\ stream'.slept = UpdateInterval(argv)
        /\ (stream.pc \in {"init", "fetching"} /\ stream'.pc = "polling") =>
              /\ ~stream'.skip
              /\ stream'.began = now' /\ stream'.wake = now' + UpdateInterval(argv')
      ]_vars

\* the first sleep was ended by a request within a second, the second
\* lasted the whole interval
C27_Witness ==
    /\ stream.loops = 2 /\ stream.pc = "polling"
    /\ stream.slept = UpdateInterval(argv)
    /\ stream.began = UpdateInterval(argv) + MsPerSecond
    /\ now = stream.began

\* ------------------------------------------------------------------ C28
\* C28: a MembershipRequired failure is surfaced distinctly and never
\* swallowed.  In the nxapi:coral:openwebservice handler a failure of
\* openWebService of kind MembershipRequired, or WebServiceValidation, is
\* passed to handleOpenWebServiceError with the web service and the query
\* string of the call, and the call does not end in null, the outcome every
\* other failure of openWebService is given.
C28_MembershipRequiredSurfaced ==
    [][ (ipc.pc = "openWebService" /\ IsDefined(ipc'.error)) =>
          IF Value(ipc'.error) \in {"MembershipRequiredError", "WebServiceValidationError"}
            THEN /\ ipc'.handled = Append(ipc.handled,
                        [err |-> Value(ipc'.error), webservice |-> ipc.webservice,
                         qs |-> ipc.qs])
                 /\ Value(ipc'.result) # [settled |-> "resolved", value |-> "null"]
            ELSE /\ ipc'.handled = ipc.handled
                 /\ Value(ipc'.result) = [settled |-> "resolved", value |-> "null"]
      ]_vars

\* the second call failed for want of a membership and its error went to
\* handleOpenWebServiceError, the only error that did
C28_Witness ==
    /\ ipc.pc = "done" /\ ipc.invokes = 2
    /\ ipc.error = Some("MembershipRequiredError")
    /\ Len(ipc.handled) = 1 /\ ipc.handled[1].err = "MembershipRequiredError"
    /\ Value(ipc.result).value = "handleOpenWebServiceError"

\* ------------------------------------------------------------------ C29
\* the request came with 'Authorization: na <session token>'
CameWithNa(rq) == IsDefined(rq.authorization) /\ Value(rq.authorization).scheme = "na"

\* the session token stored for the user the request names in ?user=
StoredFor(rq) == getItem(stores["data"], NintendoAccountTokenKey(Value(rq.query_user)))

\* With require-token enabled a request that came without an 'na' header and
\* without a proxy token that exists makes no getToken call and no upstream
\* call, and is answered with an error.
RequireTokenEnforced ==
    \A r \in Reqs :
        (argv.requireToken /\ ~CameWithNa(req[r]) /\ ~IsDefined(req[r].zncAuthPolicyUser))
        => /\ req[r].getTokens = 0 /\ req[r].upstream = 0
           /\ req[r].pc = "done" =>
                /\ req[r].status \in {403, 500}
                /\ "error" \in DOMAIN Value(req[r].body)

\* With require-token disabled a request with ?user=<id>, answered while
\* NintendoAccountToken.<id> is stored, had getToken called with that token.
ServedWithStoredToken(r) ==
    /\ req[r].getTokens = 1
    /\ req[r].authorization = Some(Authorization("na", Value(StoredFor(req[r]))))

\* C29: with require-token enabled the `user` query parameter is never used
\* to pick up a stored session token: a request with neither an 'na' header
\* nor a valid proxy token triggers no token exchange and no upstream call
\* and receives no data; with require-token disabled a request with
\* ?user=<id> for which NintendoAccountToken.<id> is stored is served with
\* that stored token.
C29_UserParameter ==
    /\ RequireTokenEnforced
    /\ \A r \in Reqs :
          ( /\ ~argv.requireToken /\ req[r].pc = "done"
            /\ IsDefined(req[r].query_user) /\ IsDefined(StoredFor(req[r])) )
          => ServedWithStoredToken(r)

\* ------------------------------------------------------------------ C30
\* C30: in every reachable state each reverse mapping points at a cached
\* credential of the same user: if NintendoAccountToken.<u> = t in a store,
\* then NsoToken.<t> is in that store and the user id of its saved token is
\* u.  This covers the states between the two writes of a miss and the
\* interleavings of getToken calls.
C30_ReverseMappingHasCredential ==
    \A d \in DataPaths : \A k \in DOMAIN stores[d] :
        k[1] = "NintendoAccountToken" =>
            /\ NsoTokenKey(stores[d][k]) \in DOMAIN stores[d]
            /\ stores[d][NsoTokenKey(stores[d][k])].user.id = k[2]

\* a call stands between its two writes of a miss while the reverse mapping
\* another call wrote is in the store
C30_Witness ==
    \E c \in Calls :
        /\ call[c].pc = "setItemUserMiss"
        /\ NintendoAccountTokenKey(Value(call[c].data).user.id) \in DOMAIN stores[call[c].storage]
        /\ \E o \in Calls \ {c} : call[o].pc = "returned" /\ call[o].token = call[c].token

\* ------------------------------------------------------------------ C31
\* the allowlist of presence as the claim spells it: friends_presence when
\* the policy has it, otherwise friends when the policy has it, otherwise
\* everyone
AllowlistAdmits(p, nsaId) ==
    IF Has(p, "friends_presence") THEN Includes(p.friends_presence, nsaId)
    ELSE IF Has(p, "friends") THEN Includes(p.friends, nsaId)
    ELSE TRUE

\* the request was answered by a proxy token's policy (the client sends its
\* next request when this one was answered, so the cache is the one served)
AnsweredWithPolicy(r, route) ==
    /\ req[r].pc = "done" /\ req[r].route = route
    /\ IsDefined(req[r].zncAuthPolicy)

\* C31: the allowlist precedence of presence is the same on the list and on
\* the single-friend endpoint.  For a token with a policy, a friend of the
\* served entry is a key of the answer of GET /api/znc/friends/presence if
\* and only if the allowlist admits the friend, and GET
\* /api/znc/friend/f/presence with the capability granted is refused 403
\* token_unauthorised if and only if the allowlist does not admit f: by
\* friends_presence when defined, otherwise by friends when defined,
\* otherwise everyone is admitted.
C31_PresenceAllowlistAgrees ==
    \A r \in Reqs :
        /\ ( AnsweredWithPolicy(r, "GET /api/znc/friends/presence") /\ req[r].status = 200 )
           => LET friends == cache.appdata[UserIdOf(req[r])].friends IN
              \A i \in 1..Len(friends) :
                  (friends[i].nsaId \in DOMAIN Value(req[r].body))
                    <=> AllowlistAdmits(Value(req[r].zncAuthPolicy), friends[i].nsaId)
        /\ ( /\ AnsweredWithPolicy(r, "GET /api/znc/friend/:nsaid/presence")
             /\ Flag(Value(req[r].zncAuthPolicy), "friend_presence") )
           => ( HasError(req[r], 403, "token_unauthorised")
                  <=> ~AllowlistAdmits(Value(req[r].zncAuthPolicy), req[r].nsaid) )

\* the list was answered for a policy with both allowlists: a friend named in
\* friends alone is left out, the one named in friends_presence is listed
C31_Witness ==
    \E r \in Reqs :
        /\ AnsweredWithPolicy(r, "GET /api/znc/friends/presence") /\ req[r].status = 200
        /\ Has(Value(req[r].zncAuthPolicy), "friends_presence")
        /\ Has(Value(req[r].zncAuthPolicy), "friends")
        /\ DOMAIN Value(req[r].body) = {"f1"}
        /\ \E i \in 1..Len(cache.appdata["u1"].friends) :
              cache.appdata["u1"].friends[i].nsaId = "f2"

\* ------------------------------------------------------------------ C32
\* C32: for GET /api/znc/user/presence with a proxy token that has a policy,
\* a policy that contains the key current_user_presence is authorised
\* exactly when that flag is true, and a policy that does not contain the
\* key is authorised exactly when current_user is true.
C32_CurrentUserFallback ==
    \A r \in Reqs :
        AnsweredWithPolicy(r, "GET /api/znc/user/presence") =>
            LET p == Value(req[r].zncAuthPolicy) IN
            ~HasError(req[r], 403, "token_unauthorised")
              <=> IF Has(p, "current_user_presence")
                    THEN Flag(p, "current_user_presence")
                    ELSE Flag(p, "current_user")

\* ------------------------------------------------------------------ C38
\* the policy grants the capability of the friend route and its allowlist
\* (friends on the friend route, friends_presence or else friends on the
\* presence route) does not name nsaid
OutsideAllowlist(route, p, nsaid) ==
    /\ route \in FriendRoutes
    /\ Flag(p, CapabilityOf(route))
    /\ IF route = "GET /api/znc/friend/:nsaid"
         THEN Has(p, "friends") /\ ~Includes(p.friends, nsaid)
         ELSE ~AllowlistAdmits(p, nsaid)

IsFriend(entries, id, nsaid) ==
    id \in DOMAIN entries /\ \E i \in 1..Len(entries[id].friends) :
                                 entries[id].friends[i].nsaId = nsaid

\* C38: an allowlist denial reveals nothing about friendship.  For a proxy
\* token whose policy has an allowlist, the step that read the token's record
\* answers GET /api/znc/friend/:nsaid (or /presence) for an nsaId outside the
\* allowlist with 403 and the body {error: token_unauthorised}, whatever the
\* friend cache holds: nothing was looked up or fetched for the request and
\* cache, storage and token calls are as they were.
C38_DenialIndependentOfFriendship ==
    [][ \A r \in Reqs :
          ( /\ req[r].pc = "authToken" /\ req'[r] # req[r]
            /\ IsDefined(StoredAuth(r))
            /\ IsDefined(Value(StoredAuth(r)).policy)
            /\ OutsideAllowlist(req[r].route, Value(Value(StoredAuth(r)).policy), req[r].nsaid) )
          => /\ req'[r].pc = "done" /\ req'[r].status = 403
             /\ req'[r].body = Some([error |-> "token_unauthorised"])
             /\ Untouched(req'[r])
             /\ UNCHANGED <<stores, cache, call, calls>>
      ]_vars

\* a request for a friend of the cached list was refused by the allowlist
C38_Witness ==
    \E r \in Reqs :
        /\ HasError(req[r], 403, "token_unauthorised")
        /\ IsDefined(req[r].zncAuthPolicy)
        /\ OutsideAllowlist(req[r].route, Value(req[r].zncAuthPolicy), req[r].nsaid)
        /\ IsFriend(cache.appdata, Value(req[r].zncAuthPolicyUser), req[r].nsaid)

\* ------------------------------------------------------------------ C36
\* C36: after any set of possibly overlapping POST /api/znc/tokens and
\* DELETE /api/znc/token requests of one user has completed, the index
\* ZncProxyAuthPolicies.<user> holds exactly the tokens t for which a record
\* ZncProxyAuthPolicy.<t> of that user exists: every issued, unrevoked token
\* is listed and no revoked token is.
C36_IndexMatchesRecords ==
    (\A r \in Reqs : IsFree(r)) =>
        \A u \in TokenUsers, t \in TokenNames :
            Indexed(stores["data"], u, t)
              <=> /\ IsDefined(RecordOf(stores["data"], t))
                  /\ Value(RecordOf(stores["data"], t)).user = u

\* ------------------------------------------------------------------ C33
\* the cache a data route is served from
EntriesOf(ch, route) == IF route \in AppDataRoutes THEN ch.appdata ELSE ch.userdata

\* the answer of GET /api/znc/friends or GET /api/znc/user to a request
\* without a policy, as built from one cache entry
BuiltFrom(rq, entry) ==
    IF rq.route = "GET /api/znc/friends"
      THEN rq.body = Some([friends |-> entry.friends, updated |-> entry.updated])
      ELSE rq.body = Some([user |-> entry.user, updated |-> entry.updated])

\* request r is answered 200 on one of the two routes in this step
DataAnswered(r) ==
    /\ req[r].pc # "done" /\ req'[r].pc = "done" /\ req'[r].status = 200
    /\ req[r].route \in {"GET /api/znc/friends", "GET /api/znc/user"}

\* the user the request's session token belongs to
Authenticated(rq) == Jwt_decode(Value(rq.authorization).value).sub

\* C33: every success response of an endpoint behind getAppData or
\* getUserData is built from one cache entry of the authenticated user.
\* Either the request passed the cache check in this step, the entry
\* satisfied updated + updateInterval > now and the cache is unchanged, or
\* the entry was written by this request in this step, stamped now and made
\* of the friends and web services this request fetched.  Another user's
\* entry is never the one served.
C33_ServedFromFreshEntryOfUser ==
    [][ \A r \in Reqs : DataAnswered(r) =>
          LET u == Authenticated(req[r])
              before == EntriesOf(cache, req[r].route)
              after == EntriesOf(cache', req[r].route)
          IN /\ UserIdOf(req'[r]) = u
             /\ u \in DOMAIN after
             /\ BuiltFrom(req'[r], after[u])
             /\ \/ /\ req[r].pc = "nsoAuthSetIds"
                   /\ cache' = cache
                   /\ before[u].updated + UpdateInterval(argv) > now
                \/ /\ req[r].pc \in {"getActiveEvent", "getCurrentUser"}
                   /\ after[u].updated = now
                   /\ \A o \in DOMAIN before \ {u} : o \in DOMAIN after /\ after[o] = before[o]
                   /\ req[r].pc = "getActiveEvent" =>
                        /\ after[u].friends = Value(req[r].local).friends
                        /\ after[u].webservices = Value(req[r].local).webservices
      ]_vars

\* a request was served from the entry a request before it had written a
\* second earlier, while the other user's entry holds another friend list
C33_Witness ==
    \E r \in Reqs :
        /\ req[r].pc = "done" /\ req[r].status = 200 /\ req[r].upstream = 0
        /\ req[r].route = "GET /api/znc/friends"
        /\ IsDefined(req[r].cached) /\ Value(req[r].cached).updated < now
        /\ BuiltFrom(req[r], Value(req[r].cached))
        /\ \E o \in DOMAIN cache.appdata :
              /\ o # UserIdOf(req[r])
              /\ cache.appdata[o].friends # Value(req[r].cached).friends

\* ------------------------------------------------------------------ C34
\* the awaits of a refresh in getAppData and getUserData
RefreshPcs == {"getFriendList", "getWebServices", "getActiveEvent", "getCurrentUser"}

\* the request is answered 500 with a JSON error and no data
Answered500(rq) ==
    /\ rq.pc = "done" /\ rq.status = 500
    /\ DOMAIN Value(rq.body) = {"error", "error_message"}

\* C34: when a refresh in getAppData or getUserData fails at any of its
\* upstream calls, the request is answered 500 with a JSON error, the route
\* handler does not run (the stale entry is not served) and the user's cache
\* entry is left exactly as it was.  A step of a refresh changes the cache
\* only when its last call succeeded, by the whole entry stamped now, so no
\* partially refreshed entry is ever stored.
C34_FailedRefreshKeepsEntry ==
    [][ \A r \in Reqs :
          (req[r].pc \in RefreshPcs /\ req'[r] # req[r]) =>
             \/ /\ Answered500(req'[r])
                /\ cache' = cache
             \/ /\ req[r].pc \in {"getFriendList", "getWebServices"}
                /\ req'[r].pc \in RefreshPcs
                /\ cache' = cache
             \/ /\ req[r].pc \in {"getActiveEvent", "getCurrentUser"}
                /\ req'[r].pc = "done" /\ req'[r].status = 200
                /\ EntriesOf(cache', req[r].route)[UserIdOf(req[r])].updated = now
      ]_vars

\* a refresh of a stale entry failed after its first call: the request was
\* answered 500 and the entry it had found is still the user's entry
C34_Witness ==
    \E r \in Reqs :
        /\ Answered500(req[r]) /\ req[r].upstream >= 2
        /\ IsDefined(req[r].cached)
        /\ Value(req[r].cached).updated + UpdateInterval(argv) <= now
        /\ cache.appdata[UserIdOf(req[r])] = Value(req[r].cached)

\* ------------------------------------------------------------------ C35
\* request r records a successful refresh of its user's app data in this step
Refreshed(r) ==
    /\ req[r].pc = "getActiveEvent" /\ req'[r].pc = "done"
    /\ req'[r].status = 200

\* C35 as stated: for any one user, two successful refreshes of the user's
\* app-data cache recorded at T1 < T2 satisfy T2 >= T1 + updateInterval,
\* also when requests of that user overlap.  (T1 is the stamp of the entry
\* the refresh replaces, T2 the stamp it writes.)
C35_RefreshRateBounded ==
    [][ \A r \in Reqs : Refreshed(r) =>
          LET u == UserIdOf(req[r]) IN
          (u \in DOMAIN cache.appdata /\ cache.appdata[u].updated < cache'.appdata[u].updated)
            => cache'.appdata[u].updated >= cache.appdata[u].updated + UpdateInterval(argv)
      ]_vars

\* C35 as amended: a successful refresh recorded at T2 by a request whose
\* cache check found the entry recorded at T1 satisfies
\* T2 >= T1 + updateInterval, and a request starts a refresh only when it
\* finds no entry or one with T1 + updateInterval <= now.  Requests of one
\* user that overlap each pass the check and refresh on their own.
C35_RefreshAfterStaleCheck ==
    [][ \A r \in Reqs :
          /\ Refreshed(r) =>
               /\ cache'.appdata[UserIdOf(req[r])].updated = now
               /\ IsDefined(req[r].cached) =>
                    now >= Value(req[r].cached).updated + UpdateInterval(argv)
          /\ (req[r].pc = "nsoAuthSetIds" /\ req'[r].pc = "getFriendList") =>
               /\ req'[r].cached = MapGet(cache.appdata, UserIdOf(req'[r]))
               /\ IsDefined(req'[r].cached) =>
                    Value(req'[r].cached).updated + UpdateInterval(argv) <= now
      ]_vars

\* a request that had found a stale entry has replaced it
C35_Witness ==
    \E r \in Reqs :
        /\ req[r].pc = "done" /\ req[r].status = 200 /\ req[r].upstream = 3
        /\ IsDefined(req[r].cached)
        /\ cache.appdata[UserIdOf(req[r])].updated
             >= Value(req[r].cached).updated + UpdateInterval(argv)

\* ------------------------------------------------------------------ C37
\* request r reaches the handler of GET /api/znc/announcements in this step
ReachesAnnouncements(r) ==
    /\ req[r].route = "GET /api/znc/announcements"
    /\ req[r].pc = "nsoAuthSetIds" /\ req'[r] # req[r]

\* A request of any user that reaches the handler while a list is cached is
\* answered with that list and calls nothing; one that finds no list calls
\* getAnnouncements.  A successful fetch caches the list it answers, a
\* failed fetch writes nothing to the cache.
CachedListServed ==
    \A r \in Reqs :
        /\ ReachesAnnouncements(r) =>
             IF IsDefined(cache.announcements)
               THEN /\ req'[r].pc = "done" /\ req'[r].status = 200
                    /\ req'[r].body = Some([announcements |-> Value(cache.announcements)])
                    /\ req'[r].upstream = 0
                    /\ cache' = cache
               ELSE /\ req'[r].pc = "getAnnouncements" /\ req'[r].upstream = 1
                    /\ cache' = cache
        /\ (req[r].pc = "getAnnouncements" /\ req'[r].pc = "done") =>
             IF req'[r].status = 200
               THEN cache'.announcements = Some(Value(req'[r].body).announcements)
               ELSE cache' = cache

\* C37 as stated: announcements are cached once for all users and never
\* refreshed.  After the first successful GET /api/znc/announcements the
\* cached list never changes, and every later request of any user is
\* answered with it without a call of getAnnouncements; a failed fetch leaves
\* the cache as it was, so the next request fetches again.
C37_CachedOnce ==
    [][ /\ CachedListServed
        /\ IsDefined(cache.announcements) => cache'.announcements = cache.announcements
      ]_vars

\* C37 as amended: the cached list is written by the successful fetch of a
\* request that had found the cache empty, and by nothing else, so it stays
\* the same from the moment no such request is in flight; while one is, its
\* answer replaces the list cached by the first.
C37_CachedByEmptyFinders ==
    [][ /\ CachedListServed
        /\ cache'.announcements # cache.announcements =>
             \E r \in Reqs :
                 /\ req[r].pc = "getAnnouncements" /\ req'[r].pc = "done"
                 /\ req'[r].status = 200
                 /\ req'[r].body = Some([announcements |-> Value(cache'.announcements)])
        /\ ( /\ IsDefined(cache.announcements)
             /\ \A r \in Reqs : req[r].pc # "getAnnouncements" )
             => cache'.announcements = cache.announcements
      ]_vars

\* a user was answered from the cache the list another user's request had
\* fetched
C37_Witness ==
    \E r, o \in Reqs :
        /\ req[r].pc = "done" /\ req[r].route = "GET /api/znc/announcements"
        /\ req[r].status = 200 /\ req[r].upstream = 0
        /\ req[r].body = Some([announcements |-> Value(cache.announcements)])
        /\ req[o].pc = "done" /\ req[o].route = "GET /api/znc/announcements"
        /\ req[o].status = 200 /\ req[o].upstream = 1
        /\ UserIdOf(req[o]) # UserIdOf(req[r])
====
